---------------------------- MODULE Spec2Model ----------------------------
(***************************************************************************)
(* A model of easygpu: the Device factory (binding groups, layouts,       *)
(* framebuffers, depth buffers, pipelines), the Texture                    *)
(* copy/transfer/blit subsystem, Renderer::read, the RenderFrame           *)
(* present-on-drop lifecycle, the presentation surface and the sandbox's   *)
(* event loop, uniform updates, Renderer::submit and VertexLayout.         *)
(*                                                                         *)
(* The GPU driver (wgpu) and the geometry library (figures) are external   *)
(* collaborators.  They are modelled by what the calls made in the source  *)
(* do:                                                                     *)
(*   - figures::Rect<U> is an origin and a size; extent() is origin+size;  *)
(*     Rect::from_extents(p1, p2) takes two CORNER points and returns the  *)
(*     rectangle spanned by them (origin = component-wise minimum, size =  *)
(*     component-wise maximum minus minimum);                              *)
(*   - a command encoder is the sequence of commands recorded into it; a   *)
(*     queue submission executes them in recording order;                  *)
(*   - a panic (assert!, expect, arithmetic overflow in a build with       *)
(*     overflow checks, division by zero) ends the program.                *)
(*                                                                         *)
(* The subsystems do not share state besides the Device, so each has its   *)
(* own specification over the module's variables: SpecBinding,             *)
(* SpecTransfer, SpecCanvas, SpecRead, SpecFrame, SpecSurface,             *)
(* SpecSandbox, SpecFactory, SpecPipeline, SpecSubmit, SpecLayout and      *)
(* SpecVertex.                                                             *)
(*                                                                         *)
(*   - wgpu's Surface::configure aborts while an image of the surface is   *)
(*     acquired and on an empty size; get_current_texture on a surface     *)
(*     that is not configured, or that has an image acquired, returns an   *)
(*     error or aborts.                                                    *)
(***************************************************************************)
EXTENDS Integers, Sequences, FiniteSets, TLC

VARIABLES
    panicked,       \* the program has aborted (panic)
    \* ---- Device::create_binding_group
    groupsCreated,  \* number of wgpu bind groups created so far
    lastGroup,      \* Option<BindingGroup>: the group returned by the last call
    bindCall,       \* Option: the arguments of the last create_binding_group call
    \* ---- Texture / command encoder / queue
    debugBuild,     \* the build has overflow checks (debug) or wraps (release)
    tex,            \* the texture: [width, height]
    image,          \* the texture's texels, [x, y] -> colour, row 0 at the top
    encoder,        \* the open command encoder: the commands recorded so far
    staging,        \* number of staging buffers created
    submissions,    \* number of queue submissions performed
    driverError,    \* the driver rejected a submitted command
    arg,            \* the call under test: its kind and its arguments
    called,         \* the call under test has been made
    cleared,        \* Option<colour>: the texture was cleared first
    \* ---- Renderer::read
    fb,             \* the framebuffer's colour texture: [width, height]
    reads,          \* number of read calls started
    readPc,         \* where the current read call is: idle, polling, returned
    readEncoder,    \* the commands recorded into read's command encoder
    readSubmitted,  \* the command buffers read has submitted to the queue
    mapPending,     \* the driver owes the buffer-mapped notification
    mapResult,      \* the shared Option<Result>: the mapping callback's report
    readLog,        \* what the current read call did, in order
    callbackPixels, \* Option: the number of pixels given to the caller's callback
    readResult,     \* Option: the value read returned
    \* ---- RenderFrame / Frame
    frames,         \* the RenderFrames: id -> [state, wgpu, presents, submits]
    openFrames,     \* number of Frames (command encoders) being recorded
    frameSubmissions, \* number of command buffers submitted by Renderer::present
    \* ---- Device / Renderer: the presentation surface
    hasSurface,     \* Device.surface is Some
    sampleCount,    \* Renderer.sample_count
    deviceSize,     \* Device.size, the remembered configured size
    surfaceConfig,  \* Option<Size>: the size the driver's surface is configured to
    surfaceState,   \* the driver's view of the surface: "ok" or "outdated"
    liveFrame,      \* Option<RenderFrame>: the RenderFrame acquired and not yet dropped
    lastConfigure,  \* Option: the last configure call and the size before it
    zbuffers,       \* number of depth buffers allocated
    redrawLog,      \* the sandbox's redraws: result, counters before and after
    sandboxStats,   \* what the sandbox's redraw handler did so far (counters)
    multisample,    \* Option<Texture>: the sandbox's multisample texture
    \* ---- Device: framebuffers, depth buffers, pipelines
    made,           \* Option: the object the last factory call returned
    depthFormats,   \* the formats of all depth buffers created so far
    \* ---- Renderer::update_pipeline
    uniformBuffer,  \* the contents of the pipeline's uniform buffer
    uniformWrites,  \* the queue.write_buffer calls of the last update_pipeline
    updateLog,      \* the update_pipeline calls: context, prepared payload, buffer after
    \* ---- Renderer::submit
    queue,          \* the command buffers submitted to the queue, in order
    lastSubmit,     \* Option: the last Renderer::submit call
    \* ---- Device::create_binding_group_layout
    layoutCall,     \* Option: the arguments of the last call
    lastLayout,     \* Option: the BindingGroupLayout it returned, with its wgpu entries
    \* ---- VertexLayout::from
    vertexFormats,  \* the list of vertex formats given
    vertexLayout,   \* Option<VertexLayout>: the layout built from it
    vertexCount,    \* the number of vertices in the slice given to create_buffer
    vertexBuffer,   \* Option<VertexBuffer>: the buffer created from the slice
    draws           \* the commands recorded into the render pass

bindVars == <<groupsCreated, lastGroup, bindCall>>
texVars == <<debugBuild, tex, image, encoder, staging, submissions,
             driverError, arg, called, cleared>>
readVars == <<fb, reads, readPc, readEncoder, readSubmitted, mapPending, mapResult,
              readLog, callbackPixels, readResult>>
frameVars == <<frames, openFrames, frameSubmissions>>
surfVars == <<hasSurface, sampleCount, deviceSize, surfaceConfig, surfaceState, liveFrame,
              lastConfigure, zbuffers, redrawLog, sandboxStats, multisample>>
factVars == <<made, depthFormats>>
pipeVars == <<uniformBuffer, uniformWrites, updateLog>>
queueVars == <<queue, lastSubmit>>
layoutVars == <<layoutCall, lastLayout>>
vertexVars == <<vertexFormats, vertexLayout, vertexCount, vertexBuffer, draws>>
restVars == <<surfVars, factVars, pipeVars, queueVars, layoutVars, vertexVars>>
vars == <<panicked, bindVars, texVars, readVars, frameVars, restVars>>

\* Option<T> is a sequence of length 0 (None) or 1 (Some(x)).
None == <<>>
Some(x) == <<x>>
IsSome(o) == Len(o) = 1
Unwrap(o) == o[1]

Min(a, b) == IF a <= b THEN a ELSE b
Max(a, b) == IF a >= b THEN a ELSE b
Abs(a) == IF a >= 0 THEN a ELSE 0 - a

(***************************************************************************)
(* Bounds of the model.                                                    *)
(***************************************************************************)
MaxSlots == 2       \* a layout has 0..MaxSlots slots; a call binds 0..MaxSlots+1 resources
MaxSet == 1         \* set indices 0..MaxSet
MaxGroups == 2      \* binding groups created in one behaviour
MaxReads == 2       \* calls of Renderer::read in one behaviour
MaxFrames == 3      \* RenderFrames acquired in one behaviour
MaxOpen == 2        \* Frames being recorded at one time
MaxSubmits == 2     \* command buffers submitted by Renderer::present in one behaviour

(***************************************************************************)
(* Binding model: Device::create_binding_group                             *)
(***************************************************************************)
\* The resources that implement Bind: Texture, Framebuffer, uniform buffer.
Resources == {"texture", "framebuffer", "uniform"}

\* A BindingGroupLayout as far as the CPU side knows it.
BindingGroupLayout(set_index, size) == [set_index |-> set_index, size |-> size]

Layouts == {BindingGroupLayout(s, n) : s \in 0..MaxSet, n \in 0..MaxSlots}

RECURSIVE SeqsUpTo(_, _)
SeqsUpTo(S, n) ==
    IF n = 0 THEN {<<>>}
    ELSE LET shorter == SeqsUpTo(S, n - 1)
         IN  shorter \cup {Append(s, x) : s \in {t \in shorter : Len(t) = n - 1}, x \in S}

BindLists == SeqsUpTo(Resources, MaxSlots + 1)

\* Bind::binding(&self, index): the resource described as entry `index`.
Binding(resource, index) == [binding |-> index, resource |-> resource]

\* The loop `for (i, b) in binds.iter().enumerate() { bindings.push(b.binding(i)) }`:
\* bindings after the first n resources were pushed.
RECURSIVE PushBindings(_, _)
PushBindings(binds, n) ==
    IF n = 0 THEN <<>>
    ELSE Append(PushBindings(binds, n - 1), Binding(binds[n], n - 1))

BindEntries(binds) == PushBindings(binds, Len(binds))

\* BindingGroup::new(set_index, wgpu): the wgpu group is its entries.
BindingGroup(set_index, entries) == [set_index |-> set_index, entries |-> entries]

\* Mutant: extra resources are accepted (and would be cut off by the layout).
SlotCountAtLeast(layout, binds) == Len(binds) >= layout.size

\* assert_eq!(binds.len(), layout.size, ...)
SlotCountMatches(layout, binds) == Len(binds) = layout.size

CreateBindingGroup(layout, binds) ==
    /\ ~panicked
    /\ groupsCreated < MaxGroups
    /\ bindCall' = Some([layout |-> layout, binds |-> binds, before |-> groupsCreated])
    /\ IF SlotCountMatches(layout, binds)
       THEN /\ lastGroup' = Some(BindingGroup(layout.set_index, BindEntries(binds)))
            /\ groupsCreated' = groupsCreated + 1
            /\ UNCHANGED panicked
       ELSE /\ panicked' = TRUE
            /\ UNCHANGED <<lastGroup, groupsCreated>>
    /\ UNCHANGED <<texVars, readVars, frameVars, restVars>>

(***************************************************************************)
(* Geometry (figures) and integer widths                                   *)
(***************************************************************************)
MaxDim == 4         \* textures are 1..MaxDim wide and high
MaxOrigin == 2      \* transfer rectangles have origin coordinates -1..MaxOrigin
MaxSide == 2        \* rectangle extents are -MaxSide..MaxSide (signed) or 0..MaxSide
MaxLen == 4         \* texel buffers given to transfer hold 0..MaxLen texels
MaxBlitOrigin == 1  \* blit rectangles have origin coordinates 0..MaxBlitOrigin

\* The modulus of u32 arithmetic.  The program's is 2^32; TLC's integers are
\* 32-bit signed, so the model wraps at 2^30.  Every coordinate of the model
\* is below 2^4, so a wrapped value is "huge" under either modulus.
U32Modulus == 1073741824

\* `x as u32` for an i32 x.
AsU32(x) == x % U32Modulus

Point(x, y) == [x |-> x, y |-> y]
Size(w, h) == [width |-> w, height |-> h]
\* Rect::new(origin, size)
Rect(origin, size) == [origin |-> origin, size |-> size]
\* Size::area()
Area(size) == size.width * size.height
\* Rect::extent(): the non-origin corner, origin + size.
Extent(r) == Point(r.origin.x + r.size.width, r.origin.y + r.size.height)
\* Rect::from_extents(p1, p2): the rectangle spanned by two corner points.
FromExtents(p1, p2) ==
    Rect(Point(Min(p1.x, p2.x), Min(p1.y, p2.y)),
         Size(Max(p1.x, p2.x) - Min(p1.x, p2.x), Max(p1.y, p2.y) - Min(p1.y, p2.y)))

(***************************************************************************)
(* Recorded commands                                                       *)
(***************************************************************************)
Colours == {"zero", "A", "B"}
ClearValue == "A"       \* the colour the texture is cleared to
TexelValue == "B"       \* the colour of the texel buffers

\* A texel buffer of `len` texels, all of one colour.
Texels(len, colour) == [len |-> len, colour |-> colour]

\* Texture::copy -> encoder.copy_buffer_to_texture
CopyBufferToTexture(destination, bytes_per_row, extent, buffer) ==
    [kind |-> "buffer_to_texture",
     origin |-> destination.origin,
     rows_per_image |-> destination.size.height,
     bytes_per_row |-> bytes_per_row,
     extent |-> extent,
     buffer |-> buffer]

\* encoder.copy_texture_to_texture in Texture::blit
CopyTextureToTexture(src, dst) ==
    [kind |-> "texture_to_texture",
     src_origin |-> src.origin,
     dst_origin |-> dst.origin,
     extent |-> Size(src.size.width, src.size.height)]

\* What a call does: it panics or returns, after creating `buffers` staging
\* buffers and recording `cmds` into the encoder.
Panics(buffers) == [panic |-> TRUE, cmds |-> <<>>, buffers |-> buffers]
Records(cmds, buffers) == [panic |-> FALSE, cmds |-> cmds, buffers |-> buffers]

(***************************************************************************)
(* Texture::fill, Texture::clear, Texture::blit                            *)
(***************************************************************************)
\* Mutant: the length check is strict.
FillLengthStrict(texture, texels) == texels.len > Area(texture)

\* assert!(texels.len() as u32 >= texture.size.area(), ...)
FillLengthOk(texture, texels) == texels.len >= Area(texture)

\* texels.len() as u32 / texture.extent.height * 4
FillBytesPerRow(texture, texels) == (texels.len \div texture.height) * 4

TextureFill(texture, texels) ==
    IF ~FillLengthOk(texture, texels) THEN Panics(0)
    ELSE Records(<<CopyBufferToTexture(Rect(Point(0, 0), texture),
                                       FillBytesPerRow(texture, texels),
                                       texture, texels)>>, 1)

\* size_of::<Rgba8>(): a texel of Texture::fill's row pitch, `* 4`.
SizeOfRgba8 == 4

\* size_of::<T>() of the values Texture::clear<T> may be given: one, two,
\* four (Rgba8, Bgra8, f32) and eight bytes.
ValueSizes == {1, 2, SizeOfRgba8, 2 * SizeOfRgba8}

\* texels.align_to::<Rgba8>() of a Vec<T> of `len` values: Rgba8 has alignment
\* 1, so head is empty; body is the whole Rgba8 texels in the vector's bytes,
\* tail the bytes left over.
ClearAlignTo(len, size_of) ==
    [head |-> 0,
     body |-> (len * size_of) \div SizeOfRgba8,
     tail |-> (len * size_of) % SizeOfRgba8]

\* Mutant: the vector is reserved (with_capacity) but never resized.
TextureClearUnsized(texture, value, size_of) ==
    LET parts == ClearAlignTo(0, size_of)
    IN  IF parts.head # 0 \/ parts.tail # 0 THEN Panics(0)
        ELSE TextureFill(texture, Texels(parts.body, value))

\* Texture::clear<T>(texture, value): texels.resize(texture.size.area(), value);
\* (head, body, tail) = texels.align_to::<Rgba8>(); assert head and tail
\* empty; Self::fill(texture, body, ..)
TextureClear(texture, value, size_of) ==
    LET parts == ClearAlignTo(Area(texture), size_of)
    IN  IF parts.head # 0 \/ parts.tail # 0 THEN Panics(0)
        ELSE TextureFill(texture, Texels(parts.body, value))

\* impl Canvas for Texture, type Color = Rgba8: clear(color)
CanvasClear(texture, color) == TextureClear(texture, color, SizeOfRgba8)

\* Mutant: the guard its message describes, equal areas required.
BlitAreasEqual(src, dst) == Area(src.size) = Area(dst.size)

\* assert!(src.size.area() != dst.size.area(), ...)
BlitAreasOk(src, dst) == Area(src.size) # Area(dst.size)

TextureBlit(src, dst) ==
    IF ~BlitAreasOk(src, dst) THEN Panics(0)
    ELSE Records(<<CopyTextureToTexture(src, dst)>>, 0)

(***************************************************************************)
(* Texture::transfer                                                       *)
(***************************************************************************)
\* "Make sure we have a positive rectangle": Rect::from_extents is given the
\* minimum corner and, as its second corner, the absolute extents.
TransferDestination(rect) ==
    LET destination == rect
    IN  FromExtents(
            Point(Min(destination.origin.x, Extent(destination).x),
                  Min(destination.origin.y, Extent(destination).y)),
            Point(Max(Extent(destination).x, destination.origin.x)
                    - Min(destination.origin.x, Extent(destination).x),
                  Max(Extent(destination).y, destination.origin.y)
                    - Min(destination.origin.y, Extent(destination).y)))

\* "flip y, making it negative in the y direction"
TransferFlipped(rect) ==
    LET destination == TransferDestination(rect)
    IN  FromExtents(Point(destination.origin.x, Extent(destination).y),
                    Point(Extent(destination).x, destination.origin.y))

\* Size::new(rect.size.width as u32, rect.size.height as u32)
TransferDestinationSize(rect) ==
    Size(AsU32(TransferFlipped(rect).size.width), AsU32(TransferFlipped(rect).size.height))

\* texture.size.height - rect.origin.y as u32 underflows
TransferUnderflows(texture, rect) ==
    AsU32(TransferFlipped(rect).origin.y) > texture.height

\* Point::new(rect.origin.x as u32, texture.size.height - rect.origin.y as u32)
TransferDestinationPoint(texture, rect) ==
    Point(AsU32(TransferFlipped(rect).origin.x),
          (texture.height - AsU32(TransferFlipped(rect).origin.y)) % U32Modulus)

\* assert!(destination_size.area() <= texture.size.area(), ...)
TransferAreaOk(texture, rect) == Area(TransferDestinationSize(rect)) <= Area(texture)

\* texels.len() as u32 / destination_size.height * 4
TransferBytesPerRow(texels, rect) ==
    (texels.len \div TransferDestinationSize(rect).height) * 4

TextureTransfer(texture, texels, rect, debug) ==
    IF debug /\ TransferUnderflows(texture, rect) THEN Panics(0)
    ELSE IF ~TransferAreaOk(texture, rect) THEN Panics(0)
    ELSE IF TransferDestinationSize(rect).height = 0 THEN Panics(1)
    ELSE Records(<<CopyBufferToTexture(
                      Rect(TransferDestinationPoint(texture, rect),
                           TransferDestinationSize(rect)),
                      TransferBytesPerRow(texels, rect),
                      TransferDestinationSize(rect),
                      texels)>>, 1)

(***************************************************************************)
(* The driver: executing a submitted command buffer on the texture         *)
(***************************************************************************)
Texel(x, y) == <<x, y>>
TexelsOf(texture) == {Texel(x, y) : x \in 0..(texture.width - 1), y \in 0..(texture.height - 1)}

\* The texels a copy of `extent` at `origin` covers.
Region(origin, extent) ==
    {Texel(x, y) : x \in origin.x..(origin.x + extent.width - 1),
                   y \in origin.y..(origin.y + extent.height - 1)}

InTexture(texture, origin, extent) ==
    /\ origin.x + extent.width <= texture.width
    /\ origin.y + extent.height <= texture.height

\* The bytes of the buffer a copy reads.
BytesRead(cmd) ==
    IF Area(cmd.extent) = 0 THEN 0
    ELSE cmd.bytes_per_row * (cmd.extent.height - 1) + 4 * cmd.extent.width

\* The driver's validation of a recorded command.
CommandValid(texture, cmd) ==
    IF cmd.kind = "buffer_to_texture"
    THEN /\ InTexture(texture, cmd.origin, cmd.extent)
         /\ cmd.extent.height > 1 => cmd.bytes_per_row >= 4 * cmd.extent.width
         /\ BytesRead(cmd) <= 4 * cmd.buffer.len
    ELSE /\ InTexture(texture, cmd.src_origin, cmd.extent)
         /\ InTexture(texture, cmd.dst_origin, cmd.extent)

\* The texture after one valid command.
ExecCommand(img, cmd) ==
    IF cmd.kind = "buffer_to_texture"
    THEN [t \in DOMAIN img |->
            IF t \in Region(cmd.origin, cmd.extent) THEN cmd.buffer.colour ELSE img[t]]
    ELSE [t \in DOMAIN img |->
            IF t \in Region(cmd.dst_origin, cmd.extent)
            THEN img[Texel(t[1] - cmd.dst_origin.x + cmd.src_origin.x,
                           t[2] - cmd.dst_origin.y + cmd.src_origin.y)]
            ELSE img[t]]

\* Commands of one command buffer execute in recording order.
RECURSIVE ExecAll(_, _)
ExecAll(img, cmds) ==
    IF cmds = <<>> THEN img ELSE ExecAll(ExecCommand(img, Head(cmds)), Tail(cmds))

\* A command buffer holding an invalid command is rejected as a whole.
BufferValid(texture, cmds) == \A i \in 1..Len(cmds) : CommandValid(texture, cmds[i])

(***************************************************************************)
(* Calls on the texture                                                    *)
(***************************************************************************)
TextureSizes == {Size(w, h) : w \in 1..MaxDim, h \in 1..MaxDim}

SignedRects ==
    {Rect(Point(x, y), Size(w, h)) :
        x \in (0 - 1)..MaxOrigin, y \in (0 - 1)..MaxOrigin,
        w \in (0 - MaxSide)..MaxSide, h \in (0 - MaxSide)..MaxSide}

UnsignedRects ==
    {Rect(Point(x, y), Size(w, h)) :
        x \in 0..MaxBlitOrigin, y \in 0..MaxBlitOrigin,
        w \in 0..MaxSide, h \in 0..MaxSide}

TransferCalls ==
    {[kind |-> "transfer", texels |-> Texels(n, TexelValue), rect |-> r] :
        n \in 0..MaxLen, r \in SignedRects}

FillCalls ==
    {[kind |-> "fill", texels |-> Texels(n, TexelValue)] : n \in 0..(MaxDim * MaxDim + 1)}

ClearCalls == {[kind |-> "clear", value |-> ClearValue, size_of |-> n] : n \in ValueSizes}

BlitCalls == {[kind |-> "blit", src |-> s, dst |-> d] : s \in UnsignedRects, d \in UnsignedRects}

\* The effect of a call on the encoder, the staging buffers and the program.
Apply(outcome) ==
    /\ staging' = staging + outcome.buffers
    /\ encoder' = encoder \o outcome.cmds
    /\ panicked' = outcome.panic

\* Canvas::clear before the call under test.
ClearFirst ==
    /\ ~panicked /\ ~called /\ cleared = None /\ encoder = <<>>
    /\ Apply(CanvasClear(tex, ClearValue))
    /\ cleared' = Some(ClearValue)
    /\ UNCHANGED <<debugBuild, tex, image, submissions, driverError, arg, called>>
    /\ UNCHANGED <<bindVars, readVars, frameVars, restVars>>

CallTransfer ==
    /\ ~panicked /\ ~called /\ arg.kind = "transfer"
    /\ Apply(TextureTransfer(tex, arg.texels, arg.rect, debugBuild))
    /\ called' = TRUE
    /\ UNCHANGED <<debugBuild, tex, image, submissions, driverError, arg, cleared>>
    /\ UNCHANGED <<bindVars, readVars, frameVars, restVars>>

CallFill ==
    /\ ~panicked /\ ~called /\ arg.kind = "fill"
    /\ Apply(TextureFill(tex, arg.texels))
    /\ called' = TRUE
    /\ UNCHANGED <<debugBuild, tex, image, submissions, driverError, arg, cleared>>
    /\ UNCHANGED <<bindVars, readVars, frameVars, restVars>>

CallClear ==
    /\ ~panicked /\ ~called /\ arg.kind = "clear"
    /\ Apply(TextureClear(tex, arg.value, arg.size_of))
    /\ called' = TRUE
    /\ UNCHANGED <<debugBuild, tex, image, submissions, driverError, arg, cleared>>
    /\ UNCHANGED <<bindVars, readVars, frameVars, restVars>>

CallBlit ==
    /\ ~panicked /\ ~called /\ arg.kind = "blit"
    /\ Apply(TextureBlit(arg.src, arg.dst))
    /\ called' = TRUE
    /\ UNCHANGED <<debugBuild, tex, image, submissions, driverError, arg, cleared>>
    /\ UNCHANGED <<bindVars, readVars, frameVars, restVars>>

\* Device::submit(vec![encoder.finish()])
SubmitEncoder ==
    /\ ~panicked /\ encoder # <<>>
    /\ submissions' = submissions + 1
    /\ encoder' = <<>>
    /\ IF BufferValid(tex, encoder)
       THEN image' = ExecAll(image, encoder) /\ UNCHANGED driverError
       ELSE driverError' = TRUE /\ UNCHANGED image
    /\ UNCHANGED <<panicked, debugBuild, tex, staging, arg, called, cleared>>
    /\ UNCHANGED <<bindVars, readVars, frameVars, restVars>>

(***************************************************************************)
(* Renderer::read                                                          *)
(***************************************************************************)
\* Framebuffer::size(): the number of pixels.
FramebufferSize(framebuffer) == Area(framebuffer)

\* let bytesize = 4 * fb.size();
ReadByteSize(framebuffer) == 4 * FramebufferSize(framebuffer)

\* encoder.copy_texture_to_buffer(..) in Renderer::read
CopyTextureToBuffer(framebuffer) ==
    [kind |-> "texture_to_buffer",
     origin |-> Point(0, 0),
     bytes_per_row |-> 4 * framebuffer.width,
     rows_per_image |-> framebuffer.height,
     extent |-> framebuffer]

\* The command buffers read hands to the queue before it maps the buffer:
\* `// let submission_index = self.device.submit(vec![encoder.finish()]);`
ReadSubmits(cmds) == <<>>

\* dst.get_mapped_range() of gpu_buffer.slice(0..bytesize): the mapped bytes.
MappedLen(bytesize) == bytesize

\* buffer.align_to::<Bgra8>(): (head, body, tail) lengths; Bgra8 is 4 bytes of
\* alignment 1, so head is empty and tail holds the bytes past a multiple of 4.
AlignTo(len) == [head |-> 0, body |-> len \div 4, tail |-> len % 4]

\* Mutant: a failed mapping falls through to the callback.
ReadAfterPollIgnoringErr(framebuffer, result) ==
    [log |-> <<"callback", "unmap", IF result = "Err" THEN "return_err" ELSE "return_ok">>,
     pixels |-> Some(ReadByteSize(framebuffer) \div 4), panic |-> FALSE]

\* What read does once the loop took Some(map_result) from the shared result.
ReadAfterPoll(framebuffer, result) ==
    IF result = "Err" THEN [log |-> <<"return_err">>, pixels |-> None, panic |-> FALSE]
    ELSE LET len == MappedLen(ReadByteSize(framebuffer))
         IN  IF len # ReadByteSize(framebuffer)
             THEN [log |-> <<"unmap", "return_ok">>, pixels |-> None, panic |-> FALSE]
             ELSE IF AlignTo(len).head # 0 \/ AlignTo(len).tail # 0
             THEN [log |-> <<>>, pixels |-> None, panic |-> TRUE]
             ELSE [log |-> <<"callback", "unmap", "return_ok">>,
                   pixels |-> Some(AlignTo(len).body), panic |-> FALSE]

\* read up to the loop: encoder, staging buffer, copy, (submission), map_async.
ReadBegin ==
    /\ ~panicked /\ readPc \in {"idle", "returned"} /\ reads < MaxReads
    /\ reads' = reads + 1
    /\ readEncoder' = <<CopyTextureToBuffer(fb)>>
    /\ readSubmitted' = ReadSubmits(<<CopyTextureToBuffer(fb)>>)
    /\ mapPending' = TRUE
    /\ mapResult' = None
    /\ readLog' = <<"copy">> \o [i \in 1..Len(ReadSubmits(<<CopyTextureToBuffer(fb)>>)) |-> "submit"]
                     \o <<"map_async">>
    /\ callbackPixels' = None
    /\ readResult' = None
    /\ readPc' = "polling"
    /\ UNCHANGED <<panicked, fb>>
    /\ UNCHANGED <<bindVars, texVars, frameVars, restVars>>

\* The driver runs the mapping callback: *result = Some(map_result).
MapCallback(map_result) ==
    /\ mapPending
    /\ mapPending' = FALSE
    /\ mapResult' = Some(map_result)
    /\ readLog' = Append(readLog, IF map_result = "Ok" THEN "mapped_ok" ELSE "mapped_err")
    /\ UNCHANGED <<panicked, fb, reads, readPc, readEncoder, readSubmitted,
                   callbackPixels, readResult>>
    /\ UNCHANGED <<bindVars, texVars, frameVars, restVars>>

\* One turn of the loop that finds None: nothing changes.
ReadSpin ==
    /\ ~panicked /\ readPc = "polling" /\ mapResult = None
    /\ UNCHANGED vars

\* Mutant: the loop gives up when it finds None.
ReadPollWithTimeout ==
    /\ ~panicked /\ readPc = "polling"
    /\ LET timeout == mapResult = None
           after == IF timeout
                    THEN [log |-> <<"return_err">>, pixels |-> None, panic |-> FALSE]
                    ELSE ReadAfterPoll(fb, Unwrap(mapResult))
       IN  /\ mapResult' = None
           /\ readLog' = readLog \o after.log
           /\ callbackPixels' = after.pixels
           /\ panicked' = after.panic
           /\ readPc' = IF after.panic THEN "polling" ELSE "returned"
           /\ readResult' = IF after.panic THEN None
                            ELSE IF timeout THEN Some("Err") ELSE Some(Unwrap(mapResult))
    /\ UNCHANGED <<fb, reads, readEncoder, readSubmitted, mapPending>>
    /\ UNCHANGED <<bindVars, texVars, frameVars, restVars>>

\* One turn of the loop that takes Some(result), and the rest of read.
ReadPoll ==
    /\ ~panicked /\ readPc = "polling" /\ IsSome(mapResult)
    /\ LET after == ReadAfterPoll(fb, Unwrap(mapResult))
       IN  /\ mapResult' = None
           /\ readLog' = readLog \o after.log
           /\ callbackPixels' = after.pixels
           /\ panicked' = after.panic
           /\ readPc' = IF after.panic THEN "polling" ELSE "returned"
           /\ readResult' = IF after.panic THEN None ELSE Some(Unwrap(mapResult))
    /\ UNCHANGED <<fb, reads, readEncoder, readSubmitted, mapPending>>
    /\ UNCHANGED <<bindVars, texVars, frameVars, restVars>>

(***************************************************************************)
(* RenderFrame: acquisition and present-on-drop                            *)
(***************************************************************************)
FrameIds == 1..MaxFrames

NoFrame == [state |-> "none", wgpu |-> FALSE, presents |-> 0, submits |-> 0]

\* RenderFrame { wgpu: Some(surface_texture), .. } as current_frame returns it.
AcquiredFrame == [state |-> "live", wgpu |-> TRUE, presents |-> 0, submits |-> 0]

\* Mutant: the image is presented on drop only if commands were submitted.
DropRenderFrameIfSubmitted(frame) ==
    [frame EXCEPT !.state = "dropped",
                  !.wgpu = FALSE,
                  !.presents = IF frame.wgpu /\ frame.submits > 0
                               THEN frame.presents + 1 ELSE frame.presents]

\* impl Drop for RenderFrame: if let Some(wgpu) = self.wgpu.take() { wgpu.present() }
DropRenderFrame(frame) ==
    [frame EXCEPT !.state = "dropped",
                  !.wgpu = FALSE,
                  !.presents = IF frame.wgpu THEN frame.presents + 1 ELSE frame.presents]

\* Renderer::current_frame returns Ok(RenderFrame).
CurrentFrameOk ==
    /\ ~panicked
    /\ \E id \in FrameIds :
        /\ frames[id].state = "none"
        /\ \A j \in FrameIds : j < id => frames[j].state # "none"
        /\ frames' = [frames EXCEPT ![id] = AcquiredFrame]
    /\ UNCHANGED <<panicked, openFrames, frameSubmissions>>
    /\ UNCHANGED <<bindVars, texVars, readVars, restVars>>

\* Renderer::frame(): a Frame around a fresh command encoder.
BeginFrame ==
    /\ ~panicked /\ openFrames < MaxOpen
    /\ openFrames' = openFrames + 1
    /\ UNCHANGED <<panicked, frames, frameSubmissions>>
    /\ UNCHANGED <<bindVars, texVars, readVars, restVars>>

\* Mutant: present borrows the Frame, which stays open for another present.
PresentFrameBorrowed ==
    /\ ~panicked /\ openFrames > 0 /\ frameSubmissions < MaxSubmits
    /\ frameSubmissions' = frameSubmissions + 1
    /\ frames' = [id \in FrameIds |->
                    IF frames[id].state = "live"
                    THEN [frames[id] EXCEPT !.submits = 1]
                    ELSE frames[id]]
    /\ UNCHANGED <<panicked, openFrames>>
    /\ UNCHANGED <<bindVars, texVars, readVars, restVars>>

\* Renderer::present(frame): self.device.submit(vec![frame.encoder.finish()]).
PresentFrame ==
    /\ ~panicked /\ openFrames > 0 /\ frameSubmissions < MaxSubmits
    /\ openFrames' = openFrames - 1
    /\ frameSubmissions' = frameSubmissions + 1
    /\ frames' = [id \in FrameIds |->
                    IF frames[id].state = "live"
                    THEN [frames[id] EXCEPT !.submits = 1]
                    ELSE frames[id]]
    /\ UNCHANGED panicked
    /\ UNCHANGED <<bindVars, texVars, readVars, restVars>>

\* A Frame goes out of scope without Renderer::present (early return).
AbandonFrame ==
    /\ ~panicked /\ openFrames > 0
    /\ openFrames' = openFrames - 1
    /\ UNCHANGED <<panicked, frames, frameSubmissions>>
    /\ UNCHANGED <<bindVars, texVars, readVars, restVars>>

\* A RenderFrame goes out of scope.
EndOfScope(id) ==
    /\ ~panicked /\ frames[id].state = "live"
    /\ frames' = [frames EXCEPT ![id] = DropRenderFrame(frames[id])]
    /\ UNCHANGED <<panicked, openFrames, frameSubmissions>>
    /\ UNCHANGED <<bindVars, texVars, readVars, restVars>>

\* A panic in the caller unwinds: every live RenderFrame and Frame is dropped.
Unwind ==
    /\ ~panicked
    /\ panicked' = TRUE
    /\ frames' = [id \in FrameIds |->
                    IF frames[id].state = "live" THEN DropRenderFrame(frames[id])
                    ELSE frames[id]]
    /\ openFrames' = 0
    /\ UNCHANGED frameSubmissions
    /\ UNCHANGED <<bindVars, texVars, readVars, restVars>>

(***************************************************************************)
(* Device: textures, framebuffers, depth buffers, pipelines                *)
(***************************************************************************)
MaxSurfaceDim == 2  \* surface, window and target sizes are 0..MaxSurfaceDim wide and high

SurfaceSizes == {Size(w, h) : w \in 0..MaxSurfaceDim, h \in 0..MaxSurfaceDim}
SampleCounts == {1, 4}
TextureFormats == {"Bgra8UnormSrgb", "Rgba8Unorm"}

\* DepthBuffer::FORMAT, the one depth format of the system.
DepthBufferFORMAT == "DepthBuffer::FORMAT"

\* The driver's validation of a texture descriptor: no empty textures.
TextureDescriptorOk(size) == size.width > 0 /\ size.height > 0

\* Device::create_texture(size, format, usage, sample_count)
CreateTexture(size, format, sample_count) ==
    [size |-> size, extent |-> size, format |-> format, sample_count |-> sample_count]

\* Device::create_zbuffer(size, sample_count)
CreateZbuffer(size, sample_count) ==
    [texture |-> CreateTexture(size, DepthBufferFORMAT, sample_count)]

\* Mutant: the depth buffer of a framebuffer is never multisampled.
CreateFramebufferSingleSampled(size, format, sample_count) ==
    [texture |-> CreateTexture(size, format, sample_count),
     depth |-> CreateZbuffer(size, 1)]

\* Device::create_framebuffer(size, format, sample_count)
CreateFramebuffer(size, format, sample_count) ==
    [texture |-> CreateTexture(size, format, sample_count),
     depth |-> CreateZbuffer(size, sample_count)]

\* Device::create_pipeline(.., swapchain_format, multisample): the
\* fixed-function state of the descriptor.
CreatePipeline(swapchain_format, multisample_count) ==
    [depth_stencil |-> [format |-> DepthBufferFORMAT,
                        depth_write_enabled |-> TRUE,
                        depth_compare |-> "LessEqual"],
     multisample |-> multisample_count,
     target |-> swapchain_format]

\* The outcome of a factory call: the driver aborts on an empty texture.
Made(kind, size, value) ==
    IF TextureDescriptorOk(size)
    THEN [panic |-> FALSE, made |-> Some([kind |-> kind, value |-> value]),
          depths |-> IF kind = "framebuffer" THEN {value.depth}
                     ELSE IF kind = "zbuffer" THEN {value} ELSE {}]
    ELSE [panic |-> TRUE, made |-> None, depths |-> {}]

FactoryCall(out) ==
    /\ ~panicked
    /\ panicked' = out.panic
    /\ made' = out.made
    /\ depthFormats' = depthFormats \cup {d.texture.format : d \in out.depths}
    /\ UNCHANGED <<bindVars, texVars, readVars, frameVars,
                   surfVars, pipeVars, queueVars, layoutVars, vertexVars>>

\* renderer.framebuffer(size, format)
MakeFramebuffer(size, format) ==
    FactoryCall(Made("framebuffer", size, CreateFramebuffer(size, format, sampleCount)))

\* renderer.zbuffer(size)
MakeZbuffer(size) ==
    FactoryCall(Made("zbuffer", size, CreateZbuffer(size, sampleCount)))

\* renderer.pipeline(blending, format)
MakePipeline(format) ==
    /\ ~panicked
    /\ made' = Some([kind |-> "pipeline", value |-> CreatePipeline(format, sampleCount)])
    /\ UNCHANGED <<panicked, depthFormats>>
    /\ UNCHANGED <<bindVars, texVars, readVars, frameVars,
                   surfVars, pipeVars, queueVars, layoutVars, vertexVars>>

(***************************************************************************)
(* Renderer::update_pipeline, LyonPipeline::prepare                        *)
(***************************************************************************)
MaxScale == 2       \* a transformation's two scale entries are 1..MaxScale

\* ScreenTransformation<f32>: a 4x4 matrix, of which the model keeps the two
\* scale entries that ortho(0, 0, width, height, -1, 1) makes depend on the
\* frame's width and height.
ScreenTransformation(sx, sy) == [sx |-> sx, sy |-> sy]
Transformations == {ScreenTransformation(a, b) : a \in 1..MaxScale, b \in 1..MaxScale}
\* ScreenTransformation::identity()
Identity == ScreenTransformation(1, 1)
\* ScreenTransformation::to_array(): the entries as an array of f32.
ToArray(t) == <<t.sx, t.sy>>

\* struct Uniforms { ortho, transform }
Uniforms(ortho, transform) == [ortho |-> ortho, transform |-> transform]

\* The uniform buffers: the pipeline's own and one of another pipeline.
UniformBuffers == {"uniforms", "other"}

\* LyonPipeline::setup: the uniform buffer holds one Uniforms, both identity.
LyonSetup == <<Uniforms(ToArray(Identity), ToArray(Identity))>>

\* LyonPipeline::prepare(ortho)
LyonPrepare(ortho) ==
    Some([buffer |-> "uniforms",
          uniforms |-> <<Uniforms(ToArray(ortho), ToArray(Identity))>>])

\* AbstractPipeline::prepare of any implementor: None, or Some((buffer, payload)).
PrepareResults ==
    {None} \cup
    {Some([buffer |-> b, uniforms |-> <<Uniforms(ToArray(t), ToArray(t))>>]) :
        b \in UniformBuffers, t \in Transformations}

\* Mutant: the write appends the payload to what the buffer holds.
WriteBufferAppending(contents, offset, data) == contents \o data

\* queue.write_buffer(&buf, offset, data): data replaces the buffer's elements
\* from `offset` on; the rest of the buffer keeps its contents.
WriteBuffer(contents, offset, data) ==
    [i \in 1..Len(contents) |->
        IF i > offset /\ i <= offset + Len(data) THEN data[i - offset] ELSE contents[i]]

\* Device::update_uniform_buffer(slice, buf): one write_buffer at offset 0.
UpdateUniformBuffer(slice, buf) == [buffer |-> buf, offset |-> 0, data |-> slice]

\* Mutant: update_pipeline writes (an empty payload) even when prepare gave None.
RendererUpdatePipelineUnconditional(prepared) ==
    IF IsSome(prepared)
    THEN <<UpdateUniformBuffer(Unwrap(prepared).uniforms, Unwrap(prepared).buffer)>>
    ELSE <<UpdateUniformBuffer(<<>>, "uniforms")>>

\* Renderer::update_pipeline: the write_buffer calls it makes.
RendererUpdatePipeline(prepared) ==
    IF IsSome(prepared)
    THEN <<UpdateUniformBuffer(Unwrap(prepared).uniforms, Unwrap(prepared).buffer)>>
    ELSE <<>>

\* The uniform buffers after the queue performed the writes, in order.
RECURSIVE ApplyWrites(_, _)
ApplyWrites(buffers, writes) ==
    IF writes = <<>> THEN buffers
    ELSE ApplyWrites(
            [buffers EXCEPT ![Head(writes).buffer] =
                WriteBuffer(buffers[Head(writes).buffer], Head(writes).offset,
                            Head(writes).data)],
            Tail(writes))

\* The last two of a sequence of log entries, with `entry` added.
KeepTwo(log, entry) ==
    IF Len(log) < 2 THEN Append(log, entry) ELSE <<log[Len(log)], entry>>

\* renderer.update_pipeline(pip, ctx) where pip.prepare(ctx) returns `prepared`.
UpdatePipeline(pip, ctx, prepared) ==
    /\ ~panicked
    /\ LET writes == RendererUpdatePipeline(prepared)
       IN  /\ uniformWrites' = writes
           /\ uniformBuffer' = ApplyWrites(uniformBuffer, writes)
           /\ updateLog' = KeepTwo(updateLog,
                                   [pip |-> pip, ctx |-> ctx, prepared |-> prepared,
                                    writes |-> writes,
                                    before |-> uniformBuffer,
                                    after |-> ApplyWrites(uniformBuffer, writes)])
    /\ UNCHANGED panicked
    /\ UNCHANGED <<bindVars, texVars, readVars, frameVars,
                   surfVars, factVars, queueVars, layoutVars, vertexVars>>

\* update_pipeline with the LyonPipeline.
UpdateLyonPipeline(ctx) == UpdatePipeline("lyon", ctx, LyonPrepare(ctx))

\* update_pipeline with another implementor of AbstractPipeline.
UpdateOtherPipeline(prepared) == UpdatePipeline("other", Identity, prepared)

(***************************************************************************)
(* The presentation surface: Device::configure, Renderer::current_frame    *)
(***************************************************************************)
MaxZbuffers == 3    \* depth buffers allocated by current_frame in one behaviour
MaxRedraws == 3     \* redraws of the sandbox in one behaviour

\* The Device as far as configure and current_frame use it.
TheDevice == [surface |-> hasSurface, size |-> deviceSize]
\* DeviceBuilder::build: Device { surface: self.surface, size: Size::default() }
BuiltDevice(surface) == [surface |-> surface, size |-> Size(0, 0)]

\* The driver's surface: its configuration, its state and whether one of its
\* images is acquired (a SurfaceTexture is alive).
TheSurface == [config |-> surfaceConfig, state |-> surfaceState, acquired |-> IsSome(liveFrame)]
NewSurface == [config |-> None, state |-> "ok", acquired |-> FALSE]

\* wgpu's Surface::configure aborts when a SurfaceTexture of the surface is
\* still alive and when the width or the height is zero.
SurfaceConfigureOk(surf, size) == ~surf.acquired /\ size.width > 0 /\ size.height > 0

\* Mutant: the size is remembered before the surface is looked at.
DeviceConfigureSizeFirst(dev, surf, size) ==
    IF ~dev.surface \/ ~SurfaceConfigureOk(surf, size)
    THEN [panic |-> TRUE, dev |-> [dev EXCEPT !.size = size], surf |-> surf]
    ELSE [panic |-> FALSE, dev |-> [dev EXCEPT !.size = size],
          surf |-> [surf EXCEPT !.config = Some(size), !.state = "ok"]]

\* Mutant: only the first configure sets the remembered size.
DeviceConfigureFirstOnly(dev, surf, size) ==
    IF ~dev.surface \/ ~SurfaceConfigureOk(surf, size)
    THEN [panic |-> TRUE, dev |-> dev, surf |-> surf]
    ELSE [panic |-> FALSE,
          dev |-> IF dev.size = Size(0, 0) THEN [dev EXCEPT !.size = size] ELSE dev,
          surf |-> [surf EXCEPT !.config = Some(size), !.state = "ok"]]

\* Device::configure(size, mode, format):
\*   self.surface.as_ref().expect(..).configure(&self.wgpu, &desc); self.size = size;
DeviceConfigure(dev, surf, size) ==
    IF ~dev.surface THEN [panic |-> TRUE, dev |-> dev, surf |-> surf]
    ELSE IF ~SurfaceConfigureOk(surf, size) THEN [panic |-> TRUE, dev |-> dev, surf |-> surf]
    ELSE [panic |-> FALSE, dev |-> [dev EXCEPT !.size = size],
          surf |-> [surf EXCEPT !.config = Some(size), !.state = "ok"]]

\* surface.get_current_texture(): what the driver may answer.  Acquiring from
\* a surface that is not configured, or while an image is acquired, is refused
\* by the driver, with an error value or with an abort.
GetCurrentTexture(surf) ==
    IF surf.config = None \/ surf.acquired THEN {"Err", "Panic"}
    ELSE IF surf.state = "ok" THEN {"Ok"}
    ELSE {"Err"}

\* RenderFrame { wgpu: Some(surface_texture), view, depth, size }
RenderFrame(depth, size) == [wgpu |-> TRUE, depth |-> depth, size |-> size]

Aborted == [panic |-> TRUE, result |-> None, frame |-> None, zbuffers |-> <<>>]

\* Mutant: the acquisition's result is unwrapped.
RendererCurrentFrameUnwrap(dev, sample_count, status) ==
    IF ~dev.surface \/ status = "Panic" \/ status = "Err" THEN Aborted
    ELSE IF ~TextureDescriptorOk(dev.size) THEN Aborted
    ELSE [panic |-> FALSE, result |-> Some("Ok"),
          frame |-> Some(RenderFrame(CreateZbuffer(dev.size, sample_count), dev.size)),
          zbuffers |-> <<CreateZbuffer(dev.size, sample_count)>>]

\* Renderer::current_frame, the driver answering `status`.
RendererCurrentFrame(dev, sample_count, status) ==
    IF ~dev.surface \/ status = "Panic" THEN Aborted
    ELSE IF status = "Err"
    THEN [panic |-> FALSE, result |-> Some("Err"), frame |-> None, zbuffers |-> <<>>]
    ELSE IF ~TextureDescriptorOk(dev.size) THEN Aborted
    ELSE [panic |-> FALSE, result |-> Some("Ok"),
          frame |-> Some(RenderFrame(CreateZbuffer(dev.size, sample_count), dev.size)),
          zbuffers |-> <<CreateZbuffer(dev.size, sample_count)>>]

\* renderer.configure(size, ..)
RendererConfigure(size) ==
    /\ ~panicked
    /\ LET out == DeviceConfigure(TheDevice, TheSurface, size)
       IN  /\ panicked' = out.panic
           /\ deviceSize' = out.dev.size
           /\ surfaceConfig' = out.surf.config
           /\ surfaceState' = out.surf.state
           /\ lastConfigure' = Some([size |-> size, before |-> deviceSize,
                                     surface |-> hasSurface, ok |-> ~out.panic])
    /\ UNCHANGED <<hasSurface, sampleCount, liveFrame, zbuffers, redrawLog, sandboxStats,
                   multisample>>
    /\ UNCHANGED <<bindVars, texVars, readVars, frameVars,
                   factVars, pipeVars, queueVars, layoutVars, vertexVars>>

\* let frame = renderer.current_frame(); an Ok frame stays alive.
CurrentFrame ==
    /\ ~panicked /\ zbuffers < MaxZbuffers
    /\ \E status \in GetCurrentTexture(TheSurface) :
        LET out == RendererCurrentFrame(TheDevice, sampleCount, status)
        IN  /\ panicked' = out.panic
            /\ liveFrame' = IF IsSome(out.frame) THEN out.frame ELSE liveFrame
            /\ zbuffers' = zbuffers + Len(out.zbuffers)
            /\ depthFormats' = depthFormats \cup {out.zbuffers[i].texture.format : i \in 1..Len(out.zbuffers)}
    /\ UNCHANGED <<hasSurface, sampleCount, deviceSize, surfaceConfig, surfaceState,
                   lastConfigure, redrawLog, sandboxStats, multisample>>
    /\ UNCHANGED made
    /\ UNCHANGED <<bindVars, texVars, readVars, frameVars,
                   pipeVars, queueVars, layoutVars, vertexVars>>

\* The RenderFrame goes out of scope: its image is presented.
DropFrame ==
    /\ ~panicked /\ IsSome(liveFrame)
    /\ liveFrame' = None
    /\ UNCHANGED <<hasSurface, sampleCount, deviceSize, surfaceConfig, surfaceState,
                   lastConfigure, zbuffers, redrawLog, sandboxStats, multisample>>
    /\ UNCHANGED panicked
    /\ UNCHANGED <<bindVars, texVars, readVars, frameVars,
                   factVars, pipeVars, queueVars, layoutVars, vertexVars>>

\* The window system invalidates the configured surface (resize, mode change).
SurfaceOutdated ==
    /\ ~panicked /\ IsSome(surfaceConfig) /\ surfaceState = "ok"
    /\ surfaceState' = "outdated"
    /\ UNCHANGED <<hasSurface, sampleCount, deviceSize, surfaceConfig, liveFrame,
                   lastConfigure, zbuffers, redrawLog, sandboxStats, multisample>>
    /\ UNCHANGED panicked
    /\ UNCHANGED <<bindVars, texVars, readVars, frameVars,
                   factVars, pipeVars, queueVars, layoutVars, vertexVars>>

(***************************************************************************)
(* The sandbox's event loop (Sandbox::run)                                 *)
(***************************************************************************)
\* const MSAA_SAMPLE_COUNT: u32 = 4;
MSAA_SAMPLE_COUNT == 4

\* Srgb::sampler_format()
SrgbSamplerFormat == "Bgra8UnormSrgb"

\* Renderer::texture(size, format, usage, multisampled)
RendererTexture(size, format, sample_count, multisampled) ==
    CreateTexture(size, format, IF multisampled THEN sample_count ELSE 1)

\* What the event loop did so far; `reconfigured`: a Resized event configured
\* the surface since the last redraw.
NoStats == [attempts |-> 0, reconfigured |-> FALSE, encoders |-> 0, writes |-> 0,
            passes |-> 0, submits |-> 0, presents |-> 0]

\* Mutant: a Resized event configures the surface and keeps the multisample
\* texture made at start-up.
SandboxResizedKeepsTexture(new_size) ==
    /\ ~panicked
    /\ LET out == DeviceConfigure(TheDevice, TheSurface, new_size)
       IN  /\ deviceSize' = out.dev.size
           /\ surfaceConfig' = out.surf.config
           /\ surfaceState' = out.surf.state
           /\ lastConfigure' = Some([size |-> new_size, before |-> deviceSize,
                                     surface |-> hasSurface, ok |-> ~out.panic])
           /\ sandboxStats' = [sandboxStats EXCEPT !.reconfigured = @ \/ ~out.panic]
           /\ panicked' = out.panic
    /\ UNCHANGED <<hasSurface, sampleCount, liveFrame, zbuffers, redrawLog, multisample>>
    /\ UNCHANGED <<bindVars, texVars, readVars, frameVars,
                   factVars, pipeVars, queueVars, layoutVars, vertexVars>>

\* WindowEvent::Resized(new_size): configure, then recreate the multisample
\* texture at the new size.
SandboxResized(new_size) ==
    /\ ~panicked
    /\ LET out == DeviceConfigure(TheDevice, TheSurface, new_size)
       IN  /\ deviceSize' = out.dev.size
           /\ surfaceConfig' = out.surf.config
           /\ surfaceState' = out.surf.state
           /\ lastConfigure' = Some([size |-> new_size, before |-> deviceSize,
                                     surface |-> hasSurface, ok |-> ~out.panic])
           /\ sandboxStats' = [sandboxStats EXCEPT !.reconfigured = @ \/ ~out.panic]
           /\ panicked' = (out.panic \/ ~TextureDescriptorOk(new_size))
           /\ multisample' = IF out.panic \/ ~TextureDescriptorOk(new_size)
                             THEN multisample
                             ELSE Some(RendererTexture(new_size, SrgbSamplerFormat,
                                                       sampleCount,
                                                       MSAA_SAMPLE_COUNT > 1))
    /\ UNCHANGED <<hasSurface, sampleCount, liveFrame, zbuffers, redrawLog>>
    /\ UNCHANGED <<bindVars, texVars, readVars, frameVars,
                   factVars, pipeVars, queueVars, layoutVars, vertexVars>>

\* The body of `if let Ok(output) = renderer.current_frame() { .. }`: a Frame,
\* one update_pipeline, one pass, Renderer::present, and `output` dropped.
RedrawBody(stats, output) ==
    [stats EXCEPT !.encoders = @ + 1,
                  !.writes = @ + Len(RendererUpdatePipeline(
                                        LyonPrepare(ScreenTransformation(output.size.width,
                                                                         output.size.height)))),
                  !.passes = @ + 1,
                  !.submits = @ + 1,
                  !.presents = @ + 1]

\* frame.pass(PassOp::Clear(..), &output, Some(&multisample_texture.view)): the
\* sizes of the pass's attachments.  The colour target is the surface's image,
\* of the surface's configured size; the depth target is the RenderFrame's
\* depth buffer; the third argument is the multisample texture of the loop.
PassTargets(surf, output, multisample_texture) ==
    [color |-> Unwrap(surf.config),
     resolve |-> multisample_texture.size,
     depth |-> output.depth.texture.size]

\* The pass of one redraw, if the redraw got an image.
RedrawPass(surf, acquired, multisample_texture) ==
    IF acquired.panic \/ acquired.result # Some("Ok") THEN None
    ELSE Some(PassTargets(surf, Unwrap(acquired.frame), Unwrap(multisample_texture)))

\* The handler of WindowEvent::RedrawRequested.
RedrawHandler(stats, acquired) ==
    IF acquired.panic \/ acquired.result # Some("Ok")
    THEN [stats EXCEPT !.attempts = @ + 1]
    ELSE RedrawBody([stats EXCEPT !.attempts = @ + 1], Unwrap(acquired.frame))

\* WindowEvent::RedrawRequested
SandboxRedraw ==
    /\ ~panicked /\ Len(redrawLog) < MaxRedraws
    /\ \E status \in GetCurrentTexture(TheSurface) :
        LET out == RendererCurrentFrame(TheDevice, sampleCount, status)
            after == RedrawHandler(sandboxStats, out)
        IN  /\ panicked' = out.panic
            /\ zbuffers' = zbuffers + Len(out.zbuffers)
            /\ depthFormats' = depthFormats \cup {out.zbuffers[i].texture.format : i \in 1..Len(out.zbuffers)}
            /\ sandboxStats' = [after EXCEPT !.reconfigured = FALSE]
            /\ redrawLog' = Append(redrawLog,
                                   [status |-> status,
                                    result |-> out.result,
                                    panic |-> out.panic,
                                    pass |-> RedrawPass(TheSurface, out, multisample),
                                    reconfigured |-> sandboxStats.reconfigured,
                                    before |-> sandboxStats,
                                    after |-> after,
                                    zbuffersBefore |-> zbuffers,
                                    zbuffersAfter |-> zbuffers + Len(out.zbuffers)])
    /\ liveFrame' = None
    /\ UNCHANGED <<hasSurface, sampleCount, deviceSize, surfaceConfig, surfaceState,
                   lastConfigure, multisample>>
    /\ UNCHANGED made
    /\ UNCHANGED <<bindVars, texVars, readVars, frameVars,
                   pipeVars, queueVars, layoutVars, vertexVars>>

(***************************************************************************)
(* Renderer::submit(ops)                                                   *)
(***************************************************************************)
MaxOps == 3         \* canvas operations given to Renderer::submit in one behaviour
MaxBatches == 2     \* calls of Renderer::submit in one behaviour

\* enum Op: Clear(canvas, colour), Fill(canvas, texels),
\* Transfer { f, buf, rect }, Blit(canvas, src, dst); the canvas is the texture.
OpClear(color) == [op |-> "Clear", color |-> color]
OpFill(buf) == [op |-> "Fill", buf |-> buf]
OpTransfer(buf, rect) == [op |-> "Transfer", buf |-> buf, rect |-> rect]
OpBlit(src, dst) == [op |-> "Blit", src |-> src, dst |-> dst]

\* The operations the callers of the model submit on a texture: a clear, a
\* fill that fits and one that is a texel short, a transfer into the top-left
\* texel and one larger than any texture, and a blit between areas that
\* differ and one between equal areas.
Ops(texture) ==
    {OpClear(ClearValue),
     OpFill(Texels(Area(texture), TexelValue)),
     OpFill(Texels(Area(texture) - 1, TexelValue)),
     OpTransfer(Texels(1, TexelValue), Rect(Point(0, 0), Size(1, 1))),
     OpTransfer(Texels(1, TexelValue), Rect(Point(0, 0), Size(MaxSide + 1, MaxSide + 1))),
     OpBlit(Rect(Point(0, 0), Size(1, 1)), Rect(Point(0, 0), Size(0, 0))),
     OpBlit(Rect(Point(0, 0), Size(1, 1)), Rect(Point(0, 0), Size(1, 1)))}

\* The textures the operations are submitted on: the smallest and the largest.
SubmitTextures == {Size(1, 1), Size(MaxSide, MaxSide)}

\* Op::encode(dev, encoder): the canvas call of the operation.
OpEncode(texture, c, debug) ==
    IF c.op = "Clear" THEN CanvasClear(texture, c.color)
    ELSE IF c.op = "Fill" THEN TextureFill(texture, c.buf)
    ELSE IF c.op = "Transfer" THEN TextureTransfer(texture, c.buf, c.rect, debug)
    ELSE TextureBlit(c.src, c.dst)

\* Mutant: the operations are encoded last to first.
RECURSIVE EncodeAllReversed(_, _, _)
EncodeAllReversed(texture, commands, debug) ==
    IF commands = <<>> THEN Records(<<>>, 0)
    ELSE LET rest == EncodeAllReversed(texture, Tail(commands), debug)
             first == OpEncode(texture, Head(commands), debug)
         IN  IF rest.panic THEN Panics(rest.buffers)
             ELSE IF first.panic THEN Panics(rest.buffers + first.buffers)
             ELSE Records(rest.cmds \o first.cmds, rest.buffers + first.buffers)

\* Mutant: an operation that aborts is skipped and the rest is encoded.
RECURSIVE EncodeAllSkipping(_, _, _)
EncodeAllSkipping(texture, commands, debug) ==
    IF commands = <<>> THEN Records(<<>>, 0)
    ELSE LET first == OpEncode(texture, Head(commands), debug)
             rest == EncodeAllSkipping(texture, Tail(commands), debug)
         IN  Records(first.cmds \o rest.cmds, first.buffers + rest.buffers)

\* for c in commands.iter() { c.encode(&mut self.device, &mut encoder); }
RECURSIVE EncodeAll(_, _, _)
EncodeAll(texture, commands, debug) ==
    IF commands = <<>> THEN Records(<<>>, 0)
    ELSE LET first == OpEncode(texture, Head(commands), debug)
         IN  IF first.panic THEN first
             ELSE LET rest == EncodeAll(texture, Tail(commands), debug)
                  IN  IF rest.panic THEN Panics(first.buffers + rest.buffers)
                      ELSE Records(first.cmds \o rest.cmds, first.buffers + rest.buffers)

\* The number of commands in the command buffers of a queue.
RECURSIVE Submitted(_)
Submitted(q) == IF q = <<>> THEN 0 ELSE Len(Head(q)) + Submitted(Tail(q))

\* Renderer::submit(commands): a fresh encoder, every operation encoded, and
\* self.device.submit(vec![encoder.finish()]).
RendererSubmit(commands) ==
    /\ ~panicked
    /\ Len(queue) < MaxBatches
    /\ Submitted(queue) + Len(commands) <= MaxOps
    /\ LET out == EncodeAll(tex, commands, debugBuild)
       IN  /\ panicked' = out.panic
           /\ staging' = staging + out.buffers
           /\ queue' = IF out.panic THEN queue ELSE Append(queue, out.cmds)
           /\ submissions' = IF out.panic THEN submissions ELSE submissions + 1
           /\ IF out.panic \/ ~BufferValid(tex, out.cmds)
              THEN /\ driverError' = (driverError \/ ~out.panic)
                   /\ UNCHANGED image
              ELSE /\ image' = ExecAll(image, out.cmds)
                   /\ UNCHANGED driverError
           /\ lastSubmit' = Some([commands |-> commands, aborted |-> out.panic,
                                  queueBefore |-> queue,
                                  submissionsBefore |-> submissions])
    /\ UNCHANGED <<debugBuild, tex, encoder, arg, called, cleared>>
    /\ UNCHANGED <<bindVars, readVars, frameVars,
                   surfVars, factVars, pipeVars, layoutVars, vertexVars>>

(***************************************************************************)
(* Device::create_binding_group_layout                                     *)
(***************************************************************************)
\* enum BindingType
BindingTypes == {"UniformBuffer", "UniformBufferDynamic", "Sampler",
                 "SampledTexture", "SampledTextureMultisampled"}
\* wgpu::ShaderStages
ShaderStages == {"VERTEX", "FRAGMENT"}

\* struct Binding { binding: BindingType, stage: ShaderStages }: a slot description.
Slot(binding, stage) == [binding |-> binding, stage |-> stage]
Slots == {Slot(b, s) : b \in BindingTypes, s \in ShaderStages}
SlotLists == SeqsUpTo(Slots, MaxSlots)

\* impl From<BindingType> for wgpu::BindingType
BindingTypeInto(binding_type) ==
    IF binding_type = "UniformBuffer"
    THEN [ty |-> "Buffer", has_dynamic_offset |-> FALSE]
    ELSE IF binding_type = "UniformBufferDynamic"
    THEN [ty |-> "Buffer", has_dynamic_offset |-> TRUE]
    ELSE IF binding_type = "SampledTexture"
    THEN [ty |-> "Texture", multisampled |-> FALSE]
    ELSE IF binding_type = "SampledTextureMultisampled"
    THEN [ty |-> "Texture", multisampled |-> TRUE]
    ELSE [ty |-> "Sampler"]

\* Mutant: binding indices are counted from one.
RECURSIVE PushEntriesFromOne(_, _)
PushEntriesFromOne(slots, n) ==
    IF n = 0 THEN <<>>
    ELSE LET bindings == PushEntriesFromOne(slots, n - 1)
         IN  Append(bindings, [binding |-> Len(bindings) + 1,
                               visibility |-> slots[n].stage,
                               ty |-> BindingTypeInto(slots[n].binding),
                               count |-> None])

\* for s in slots { bindings.push(BindGroupLayoutEntry { binding: bindings.len(), .. }) }:
\* bindings after the first n slots were pushed.
RECURSIVE PushEntries(_, _)
PushEntries(slots, n) ==
    IF n = 0 THEN <<>>
    ELSE LET bindings == PushEntries(slots, n - 1)
         IN  Append(bindings, [binding |-> Len(bindings),
                               visibility |-> slots[n].stage,
                               ty |-> BindingTypeInto(slots[n].binding),
                               count |-> None])

\* Device::create_binding_group_layout(index, slots): the layout and the
\* entries of the wgpu layout it wraps.
CreateBindingGroupLayout(index, slots) ==
    LET bindings == PushEntries(slots, Len(slots))
    IN  [layout |-> BindingGroupLayout(index, Len(bindings)), wgpu |-> bindings]

\* The call changes nothing in the device, so one call in a behaviour shows
\* every result it can have.
CreateLayout(index, slots) ==
    /\ ~panicked
    /\ layoutCall = None
    /\ layoutCall' = Some([index |-> index, slots |-> slots])
    /\ lastLayout' = Some(CreateBindingGroupLayout(index, slots))
    /\ UNCHANGED panicked
    /\ UNCHANGED <<bindVars, texVars, readVars, frameVars,
                   surfVars, factVars, pipeVars, queueVars, vertexVars>>

(***************************************************************************)
(* VertexLayout::from                                                      *)
(***************************************************************************)
MaxAttributes == 3  \* a vertex layout has 0..MaxAttributes attributes

\* enum VertexFormat
VertexFormats == {"Float", "Floatx2", "Floatx3", "Floatx4", "UBytex4"}
VertexFormatLists == SeqsUpTo(VertexFormats, MaxAttributes)

\* std::mem::size_of::<f32>() and size_of::<u32>()
SizeOfF32 == 4
SizeOfU32 == 4

\* VertexFormat::bytesize
Bytesize(format) ==
    IF format = "Float" THEN SizeOfF32
    ELSE IF format = "Floatx2" THEN 2 * SizeOfF32
    ELSE IF format = "Floatx3" THEN 3 * SizeOfF32
    ELSE IF format = "Floatx4" THEN 4 * SizeOfF32
    ELSE SizeOfU32

\* impl From<VertexFormat> for wgpu::VertexFormat
VertexFormatInto(format) ==
    IF format = "Float" THEN "Float32"
    ELSE IF format = "Floatx2" THEN "Float32x2"
    ELSE IF format = "Floatx3" THEN "Float32x3"
    ELSE IF format = "Floatx4" THEN "Float32x4"
    ELSE "Unorm8x4"

\* Mutant: an attribute's offset is taken after its own size was added.
RECURSIVE VertexLayoutPushedAfter(_, _)
VertexLayoutPushedAfter(vertex_formats, n) ==
    IF n = 0 THEN [attributes |-> <<>>, size |-> 0]
    ELSE LET layouts == VertexLayoutPushedAfter(vertex_formats, n - 1)
         IN  [attributes |->
                 Append(layouts.attributes,
                        [shader_location |-> Len(layouts.attributes),
                         offset |-> layouts.size + Bytesize(vertex_formats[n]),
                         format |-> VertexFormatInto(vertex_formats[n])]),
              size |-> layouts.size + Bytesize(vertex_formats[n])]

\* The loop of VertexLayout::from: `layouts` after the first n formats.
RECURSIVE VertexLayoutPushed(_, _)
VertexLayoutPushed(vertex_formats, n) ==
    IF n = 0 THEN [attributes |-> <<>>, size |-> 0]
    ELSE LET layouts == VertexLayoutPushed(vertex_formats, n - 1)
         IN  [attributes |->
                 Append(layouts.attributes,
                        [shader_location |-> Len(layouts.attributes),
                         offset |-> layouts.size,
                         format |-> VertexFormatInto(vertex_formats[n])]),
              size |-> layouts.size + Bytesize(vertex_formats[n])]

\* VertexLayout::from(vertex_formats)
VertexLayoutFrom(vertex_formats) == VertexLayoutPushed(vertex_formats, Len(vertex_formats))

\* impl From<&VertexLayout> for wgpu::VertexBufferLayout
VertexBufferLayout(layout) ==
    [array_stride |-> layout.size, step_mode |-> "Vertex", attributes |-> layout.attributes]

\* LyonPipeline::description().vertex_layout
LyonVertexLayout == <<"Floatx3", "UBytex4">>

\* let vertex_layout = VertexLayout::from(desc.vertex_layout);
BuildVertexLayout ==
    /\ ~panicked /\ vertexLayout = None
    /\ vertexLayout' = Some(VertexLayoutFrom(vertexFormats))
    /\ UNCHANGED <<panicked, vertexFormats, vertexCount, vertexBuffer, draws>>
    /\ UNCHANGED <<bindVars, texVars, readVars, frameVars,
                   surfVars, factVars, pipeVars, queueVars, layoutVars>>

(***************************************************************************)
(* Device::create_buffer, RenderPassExt::draw_buffer                       *)
(***************************************************************************)
MaxVertices == 3    \* a vertex slice holds 0..MaxVertices vertices
MaxDraws == 2       \* draw_buffer calls in one behaviour

\* std::mem::size_of::<T>() of the vertex type T the layout describes.
SizeOfVertex(vertex_formats) == VertexLayoutFrom(vertex_formats).size

\* Device::create_buffer(vertices):
\* VertexBuffer { wgpu: .., size: (vertices.len() * size_of::<T>()) as u32 }
CreateBuffer(len, size_of) == [size |-> AsU32(len * size_of)]

\* RenderPassExt::draw_buffer(buf): self.set_easy_vertex_buffer(buf);
\* self.draw(0..buf.size, 0..1)
DrawBuffer(buf) ==
    <<[kind |-> "set_vertex_buffer", slot |-> 0],
      [kind |-> "draw", vertices |-> [start |-> 0, end |-> buf.size],
       instances |-> [start |-> 0, end |-> 1]]>>

MakeBuffer ==
    /\ ~panicked /\ vertexBuffer = None
    /\ vertexBuffer' = Some(CreateBuffer(vertexCount, SizeOfVertex(vertexFormats)))
    /\ UNCHANGED <<panicked, vertexFormats, vertexLayout, vertexCount, draws>>
    /\ UNCHANGED <<bindVars, texVars, readVars, frameVars,
                   surfVars, factVars, pipeVars, queueVars, layoutVars>>

CallDrawBuffer ==
    /\ ~panicked /\ IsSome(vertexBuffer) /\ Len(draws) < 2 * MaxDraws
    /\ draws' = draws \o DrawBuffer(Unwrap(vertexBuffer))
    /\ UNCHANGED <<panicked, vertexFormats, vertexLayout, vertexCount, vertexBuffer>>
    /\ UNCHANGED <<bindVars, texVars, readVars, frameVars,
                   surfVars, factVars, pipeVars, queueVars, layoutVars>>

(***************************************************************************)
(* impl Canvas for Framebuffer: clear                                      *)
(***************************************************************************)
\* size_of::<Bgra8>(): `let bytesize = 4 * fb.size()` in Renderer::read.
SizeOfBgra8 == 4

\* 0f32, the value the depth texture is cleared to.
DepthClearValue == "zero"

\* Two canvas calls on one encoder, one after the other: a panic in the second
\* leaves what the first recorded in the encoder.
Then(first, second) ==
    IF first.panic THEN first
    ELSE [panic |-> second.panic,
          cmds |-> first.cmds \o second.cmds,
          buffers |-> first.buffers + second.buffers]

\* Mutant: only the colour texture is cleared.
FramebufferClearColourOnly(framebuffer, color) ==
    TextureClear(framebuffer.texture.size, color, SizeOfBgra8)

\* Framebuffer::clear(color): Texture::clear(&self.texture, color, ..);
\* Texture::clear(&self.depth.texture, 0f32, ..)
FramebufferClear(framebuffer, color) ==
    Then(TextureClear(framebuffer.texture.size, color, SizeOfBgra8),
         TextureClear(framebuffer.depth.texture.size, DepthClearValue, SizeOfF32))

FramebufferClearCalls ==
    {[kind |-> "framebuffer_clear", value |-> ClearValue, format |-> f, sample_count |-> n] :
        f \in TextureFormats, n \in SampleCounts}

\* Canvas::clear on the framebuffer made of a colour texture of the size of
\* `tex` and its depth buffer.
CallFramebufferClear ==
    /\ ~panicked /\ ~called /\ arg.kind = "framebuffer_clear"
    /\ Apply(FramebufferClear(CreateFramebuffer(tex, arg.format, arg.sample_count), arg.value))
    /\ called' = TRUE
    /\ UNCHANGED <<debugBuild, tex, image, submissions, driverError, arg, cleared>>
    /\ UNCHANGED <<bindVars, readVars, frameVars, restVars>>

(***************************************************************************)
(* Specifications                                                          *)
(***************************************************************************)
BindIdle ==
    /\ groupsCreated = 0
    /\ lastGroup = None
    /\ bindCall = None

TexIdle ==
    /\ debugBuild = FALSE
    /\ tex = Size(1, 1)
    /\ image = [t \in TexelsOf(Size(1, 1)) |-> "zero"]
    /\ encoder = <<>>
    /\ staging = 0
    /\ submissions = 0
    /\ driverError = FALSE
    /\ arg = [kind |-> "none"]
    /\ called = FALSE
    /\ cleared = None

\* A freshly created texture (zero-initialised) and the call under test.
TexInit(calls) ==
    /\ debugBuild \in BOOLEAN
    /\ tex \in TextureSizes
    /\ image = [t \in TexelsOf(tex) |-> "zero"]
    /\ encoder = <<>>
    /\ staging = 0
    /\ submissions = 0
    /\ driverError = FALSE
    /\ arg \in calls
    /\ called = FALSE
    /\ cleared = None

ReadIdle ==
    /\ fb = Size(1, 1)
    /\ reads = 0
    /\ readPc = "idle"
    /\ readEncoder = <<>>
    /\ readSubmitted = <<>>
    /\ mapPending = FALSE
    /\ mapResult = None
    /\ readLog = <<>>
    /\ callbackPixels = None
    /\ readResult = None

FrameIdle ==
    /\ frames = [id \in FrameIds |-> NoFrame]
    /\ openFrames = 0
    /\ frameSubmissions = 0

SurfIdle ==
    /\ hasSurface = FALSE
    /\ sampleCount = 1
    /\ deviceSize = Size(0, 0)
    /\ surfaceConfig = None
    /\ surfaceState = "ok"
    /\ liveFrame = None
    /\ lastConfigure = None
    /\ zbuffers = 0
    /\ redrawLog = <<>>
    /\ sandboxStats = NoStats
    /\ multisample = None

FactIdle == made = None /\ depthFormats = {}

PipeIdle ==
    /\ uniformBuffer = [b \in UniformBuffers |-> LyonSetup]
    /\ uniformWrites = <<>>
    /\ updateLog = <<>>

QueueIdle == queue = <<>> /\ lastSubmit = None

LayoutIdle == layoutCall = None /\ lastLayout = None

VertexIdle ==
    /\ vertexFormats = <<>> /\ vertexLayout = None
    /\ vertexCount = 0 /\ vertexBuffer = None /\ draws = <<>>

RestIdle == SurfIdle /\ FactIdle /\ PipeIdle /\ QueueIdle /\ LayoutIdle /\ VertexIdle

\* A Device just built, with or without a surface, nothing configured.
SurfInit ==
    /\ hasSurface \in BOOLEAN
    /\ sampleCount \in SampleCounts
    /\ deviceSize = BuiltDevice(hasSurface).size
    /\ surfaceConfig = NewSurface.config
    /\ surfaceState = NewSurface.state
    /\ liveFrame = None
    /\ lastConfigure = None
    /\ zbuffers = 0
    /\ redrawLog = <<>>
    /\ sandboxStats = NoStats
    /\ multisample = None

\* A Renderer built with a surface and `samples` samples, after
\* renderer.configure(size, ..) and renderer.texture(size, ..) at start-up.
SurfConfigured(samples) ==
    /\ hasSurface = TRUE
    /\ sampleCount = samples
    /\ \E size \in SurfaceSizes :
        LET out == DeviceConfigure(BuiltDevice(TRUE), NewSurface, size)
        IN  /\ panicked = (out.panic \/ ~TextureDescriptorOk(size))
            /\ deviceSize = out.dev.size
            /\ surfaceConfig = out.surf.config
            /\ surfaceState = out.surf.state
            /\ lastConfigure = Some([size |-> size, before |-> BuiltDevice(TRUE).size,
                                     surface |-> TRUE, ok |-> ~out.panic])
            /\ multisample = IF out.panic \/ ~TextureDescriptorOk(size) THEN None
                             ELSE Some(RendererTexture(size, SrgbSamplerFormat, samples,
                                                       MSAA_SAMPLE_COUNT > 1))
    /\ liveFrame = None
    /\ zbuffers = 0
    /\ redrawLog = <<>>
    /\ sandboxStats = NoStats

InitBinding == panicked = FALSE /\ BindIdle /\ TexIdle /\ ReadIdle /\ FrameIdle /\ RestIdle
NextBinding == \E layout \in Layouts, binds \in BindLists : CreateBindingGroup(layout, binds)
SpecBinding == InitBinding /\ [][NextBinding]_vars

InitTransfer ==
    /\ panicked = FALSE /\ BindIdle /\ TexInit(TransferCalls) /\ ReadIdle /\ FrameIdle
    /\ RestIdle
NextTransfer == ClearFirst \/ CallTransfer \/ SubmitEncoder
SpecTransfer == InitTransfer /\ [][NextTransfer]_vars

InitCanvas == panicked = FALSE /\ BindIdle /\ TexInit(FillCalls \cup ClearCalls \cup BlitCalls)
              /\ ReadIdle /\ FrameIdle /\ RestIdle
NextCanvas == CallFill \/ CallClear \/ CallBlit \/ SubmitEncoder
SpecCanvas == InitCanvas /\ [][NextCanvas]_vars

InitClear == panicked = FALSE /\ BindIdle /\ TexInit(ClearCalls \cup FramebufferClearCalls)
             /\ ReadIdle /\ FrameIdle /\ RestIdle
NextClear == CallClear \/ CallFramebufferClear
SpecClear == InitClear /\ [][NextClear]_vars

InitRead ==
    /\ panicked = FALSE /\ BindIdle /\ TexIdle /\ FrameIdle /\ RestIdle
    /\ fb \in TextureSizes
    /\ reads = 0
    /\ readPc = "idle"
    /\ readEncoder = <<>>
    /\ readSubmitted = <<>>
    /\ mapPending = FALSE
    /\ mapResult = None
    /\ readLog = <<>>
    /\ callbackPixels = None
    /\ readResult = None
NextRead == ReadBegin \/ (\E r \in {"Ok", "Err"} : MapCallback(r)) \/ ReadSpin \/ ReadPoll
SpecRead == InitRead /\ [][NextRead]_vars
\* The thread that called read keeps running its loop; whether and when the
\* driver runs the mapping callback is up to the driver.
SpecReadFair == SpecRead /\ WF_vars(ReadPoll)

InitFrame == panicked = FALSE /\ BindIdle /\ TexIdle /\ ReadIdle /\ FrameIdle /\ RestIdle
NextFrame ==
    \/ CurrentFrameOk
    \/ BeginFrame
    \/ PresentFrame
    \/ AbandonFrame
    \/ (\E id \in FrameIds : EndOfScope(id))
    \/ Unwind
SpecFrame == InitFrame /\ [][NextFrame]_vars

InitSurface ==
    /\ panicked = FALSE /\ BindIdle /\ TexIdle /\ ReadIdle /\ FrameIdle
    /\ SurfInit /\ FactIdle /\ PipeIdle /\ QueueIdle /\ LayoutIdle /\ VertexIdle
NextSurface ==
    \/ (\E size \in SurfaceSizes : RendererConfigure(size))
    \/ CurrentFrame
    \/ DropFrame
    \/ SurfaceOutdated
SpecSurface == InitSurface /\ [][NextSurface]_vars

InitSandbox ==
    /\ BindIdle /\ TexIdle /\ ReadIdle /\ FrameIdle
    /\ SurfConfigured(MSAA_SAMPLE_COUNT)
    /\ FactIdle /\ PipeIdle /\ QueueIdle /\ LayoutIdle /\ VertexIdle
NextSandbox ==
    \/ (\E new_size \in SurfaceSizes : SandboxResized(new_size))
    \/ SandboxRedraw
    \/ SurfaceOutdated
SpecSandbox == InitSandbox /\ [][NextSandbox]_vars

InitFactory ==
    /\ BindIdle /\ TexIdle /\ ReadIdle /\ FrameIdle
    /\ \E samples \in SampleCounts : SurfConfigured(samples)
    /\ FactIdle /\ PipeIdle /\ QueueIdle /\ LayoutIdle /\ VertexIdle
NextFactory ==
    \/ (\E size \in SurfaceSizes, format \in TextureFormats : MakeFramebuffer(size, format))
    \/ (\E size \in SurfaceSizes : MakeZbuffer(size))
    \/ (\E format \in TextureFormats : MakePipeline(format))
    \/ CurrentFrame
    \/ DropFrame
SpecFactory == InitFactory /\ [][NextFactory]_vars

InitPipeline ==
    /\ panicked = FALSE /\ BindIdle /\ TexIdle /\ ReadIdle /\ FrameIdle /\ RestIdle
NextPipeline ==
    \/ (\E ctx \in Transformations : UpdateLyonPipeline(ctx))
    \/ (\E prepared \in PrepareResults : UpdateOtherPipeline(prepared))
SpecPipeline == InitPipeline /\ [][NextPipeline]_vars

InitSubmit ==
    /\ panicked = FALSE /\ BindIdle /\ ReadIdle /\ FrameIdle /\ RestIdle
    /\ debugBuild \in BOOLEAN
    /\ tex \in SubmitTextures
    /\ image = [t \in TexelsOf(tex) |-> "zero"]
    /\ encoder = <<>>
    /\ staging = 0
    /\ submissions = 0
    /\ driverError = FALSE
    /\ arg = [kind |-> "none"]
    /\ called = FALSE
    /\ cleared = None
NextSubmit ==
    \E commands \in SeqsUpTo(Ops(tex), MaxOps - Submitted(queue)) : RendererSubmit(commands)
SpecSubmit == InitSubmit /\ [][NextSubmit]_vars

InitLayout ==
    /\ panicked = FALSE /\ BindIdle /\ TexIdle /\ ReadIdle /\ FrameIdle /\ RestIdle
NextLayout == \E index \in 0..MaxSet, slots \in SlotLists : CreateLayout(index, slots)
SpecLayout == InitLayout /\ [][NextLayout]_vars

InitVertex ==
    /\ panicked = FALSE /\ BindIdle /\ TexIdle /\ ReadIdle /\ FrameIdle
    /\ SurfIdle /\ FactIdle /\ PipeIdle /\ QueueIdle /\ LayoutIdle
    /\ vertexFormats \in VertexFormatLists
    /\ vertexLayout = None
    /\ vertexCount \in 0..MaxVertices
    /\ vertexBuffer = None
    /\ draws = <<>>
NextVertex == BuildVertexLayout \/ MakeBuffer \/ CallDrawBuffer
SpecVertex == InitVertex /\ [][NextVertex]_vars

(***************************************************************************)
(* Properties                                                              *)
(***************************************************************************)
\* The number of occurrences of event e in a log.
Count(log, e) == Cardinality({i \in 1..Len(log) : log[i] = e})
\* The place of the first occurrence of event e in a log (0: none).
Place(log, e) ==
    IF \E i \in 1..Len(log) : log[i] = e
    THEN CHOOSE i \in 1..Len(log) : log[i] = e /\ \A j \in 1..(i - 1) : log[j] # e
    ELSE 0

\* The canonical form of a signed rectangle: minimum corner, absolute size.
Canonical(rect) ==
    Rect(Point(Min(rect.origin.x, rect.origin.x + rect.size.width),
               Min(rect.origin.y, rect.origin.y + rect.size.height)),
         Size(Abs(rect.size.width), Abs(rect.size.height)))
Left(rect) == rect.origin.x
Top(rect) == rect.origin.y
Right(rect) == rect.origin.x + rect.size.width
Bottom(rect) == rect.origin.y + rect.size.height

\* C1: create_binding_group never truncates or pads.  A call whose resource
\* count differs from layout.size aborts and creates no binding group; any
\* other call creates one group of exactly layout.size entries, entry i being
\* resource i described with binding index i, with the layout's set_index.
C1_BindingGroupExact ==
    IsSome(bindCall) =>
        LET c == Unwrap(bindCall)
        IN  IF Len(c.binds) # c.layout.size
            THEN panicked /\ groupsCreated = c.before
            ELSE /\ ~panicked
                 /\ groupsCreated = c.before + 1
                 /\ IsSome(lastGroup)
                 /\ Len(Unwrap(lastGroup).entries) = c.layout.size
                 /\ \A i \in 1..c.layout.size :
                        Unwrap(lastGroup).entries[i] = [binding |-> i - 1, resource |-> c.binds[i]]
                 /\ Unwrap(lastGroup).set_index = c.layout.set_index

\* C1 witness: a group of two entries in set 1 was created, and a later call
\* with a mismatching resource count aborted.
C1_Witness ==
    /\ panicked
    /\ groupsCreated = 1
    /\ IsSome(lastGroup)
    /\ Len(Unwrap(lastGroup).entries) = 2
    /\ Unwrap(lastGroup).set_index = 1
    /\ IsSome(bindCall)
    /\ Len(Unwrap(bindCall).binds) > Unwrap(bindCall).layout.size

\* C2: the rectangle Texture::transfer normalizes its input to has a
\* non-negative width and height and the absolute area of the input.
C2_NormalizedKeepsArea ==
    (called /\ arg.kind = "transfer") =>
        LET destination == TransferDestination(arg.rect)
        IN  /\ destination.size.width >= 0
            /\ destination.size.height >= 0
            /\ Area(destination.size) = Abs(Area(arg.rect.size))

\* C3: the copy Texture::transfer records has its row origin at
\* texture.height - normalized.bottom and its column origin at
\* normalized.left.  Stated for the calls whose rectangle the code
\* normalizes to its canonical form, so that the flip alone decides it.
C3_RowOriginIsHeightMinusBottom ==
    (/\ called /\ arg.kind = "transfer" /\ ~panicked /\ encoder # <<>>
     /\ TransferDestination(arg.rect) = Canonical(arg.rect)) =>
        LET copy == encoder[Len(encoder)]
        IN  /\ copy.origin.y = tex.height - Bottom(Canonical(arg.rect))
            /\ copy.origin.x = Left(Canonical(arg.rect))

\* C4: after a clear to colour A and a transfer of a buffer of colour B into
\* a rectangle inside the texture, both submitted, every texel inside the
\* rectangle is B and every texel outside it is A.
C4_ClearThenTransferPaints ==
    (/\ cleared = Some(ClearValue) /\ called /\ arg.kind = "transfer"
     /\ ~panicked /\ encoder = <<>> /\ submissions > 0
     /\ Left(Canonical(arg.rect)) >= 0 /\ Top(Canonical(arg.rect)) >= 0
     /\ Right(Canonical(arg.rect)) <= tex.width
     /\ Bottom(Canonical(arg.rect)) <= tex.height
     /\ Area(Canonical(arg.rect).size) > 0
     /\ arg.texels.len = Area(Canonical(arg.rect).size)) =>
        \A t \in TexelsOf(tex) :
            image[t] = IF t \in Region(Canonical(arg.rect).origin, Canonical(arg.rect).size)
                       THEN TexelValue ELSE ClearValue

\* C5: a transfer whose destination area exceeds the texture area aborts
\* before it creates a staging buffer or records a copy.
C5_OversizedTransferAborts ==
    (/\ called /\ arg.kind = "transfer"
     /\ Area(Canonical(arg.rect).size) > Area(tex)) =>
        /\ panicked
        /\ staging = (IF IsSome(cleared) THEN 1 ELSE 0)
        /\ \A i \in 1..Len(encoder) : encoder[i].buffer.colour # TexelValue

\* C6: Texture::fill with exactly texture.area() texels succeeds and records
\* one copy over the texture's full extent (which, executed, paints every
\* texel); with fewer texels it fails the precondition and records nothing.
C6_FillBoundary ==
    (called /\ arg.kind = "fill") =>
        /\ arg.texels.len = Area(tex) =>
              /\ ~panicked
              /\ staging = 1
              /\ submissions = 0 =>
                    /\ Len(encoder) = 1
                    /\ encoder[1].kind = "buffer_to_texture"
                    /\ encoder[1].origin = Point(0, 0)
                    /\ encoder[1].extent = tex
                    /\ encoder[1].buffer = arg.texels
              /\ submissions > 0 =>
                    /\ ~driverError
                    /\ \A t \in TexelsOf(tex) : image[t] = arg.texels.colour
        /\ arg.texels.len < Area(tex) =>
              /\ panicked
              /\ encoder = <<>>
              /\ staging = 0
              /\ submissions = 0

\* C6 witness: a fill of a texture of several texels with exactly area()
\* texels was recorded and submitted.
C6_Witness ==
    /\ called /\ arg.kind = "fill"
    /\ arg.texels.len = Area(tex)
    /\ tex.width > 1 /\ tex.height > 1
    /\ submissions = 1

C8_ReadSubmitsOnce ==
    (readPc \in {"polling", "returned"}) =>
        /\ readSubmitted = <<readEncoder>>
        /\ Count(readLog, "submit") = 1
        /\ Place(readLog, "copy") < Place(readLog, "submit")
        /\ Place(readLog, "submit") < Place(readLog, "map_async")

\* C9: read invokes the caller's callback exactly once, with exactly
\* framebuffer.size() pixels, only after the mapping callback reported
\* success, and unmaps afterwards; when the mapping callback reports failure
\* read returns the error and never invokes the callback.
C9_ReadCallbackContract ==
    /\ readResult = Some("Ok") =>
          /\ Count(readLog, "callback") = 1
          /\ callbackPixels = Some(FramebufferSize(fb))
          /\ 0 < Place(readLog, "mapped_ok")
          /\ Place(readLog, "mapped_ok") < Place(readLog, "callback")
          /\ Place(readLog, "callback") < Place(readLog, "unmap")
          /\ Count(readLog, "unmap") = 1
    /\ readResult = Some("Err") =>
          /\ Count(readLog, "callback") = 0
          /\ callbackPixels = None
          /\ Count(readLog, "mapped_err") = 1
    /\ readPc = "polling" => Count(readLog, "callback") = 0

\* C9 witness: the second read of a framebuffer of several pixels returned Ok.
C9_Witness ==
    /\ reads = 2
    /\ readResult = Some("Ok")
    /\ FramebufferSize(fb) > 1
    /\ callbackPixels = Some(FramebufferSize(fb))

\* C10: the surface image of an acquired RenderFrame is presented exactly
\* once, when the RenderFrame goes out of scope: never while it is live, and
\* once on every exit path, whether or not Renderer::present ran before.
C10_PresentedOnceOnDrop ==
    \A id \in FrameIds :
        /\ frames[id].state = "none" => frames[id].presents = 0
        /\ frames[id].state = "live" => frames[id].presents = 0 /\ frames[id].wgpu
        /\ frames[id].state = "dropped" => frames[id].presents = 1 /\ ~frames[id].wgpu

\* C10 witness: after a panic, one RenderFrame was dropped without any
\* Renderer::present during its life and one after a Renderer::present.
C10_Witness ==
    /\ panicked
    /\ \E id \in FrameIds :
          frames[id].state = "dropped" /\ frames[id].submits = 0 /\ frames[id].presents = 1
    /\ \E id \in FrameIds :
          frames[id].state = "dropped" /\ frames[id].submits = 1 /\ frames[id].presents = 1

\* C11: when the driver refuses the surface image with an error value,
\* Renderer::current_frame returns it and nothing aborts; the sandbox's
\* redraw handler then allocates no depth buffer, begins no Frame, writes no
\* uniforms, submits and presents nothing; and every later redraw attempts the
\* acquisition again, whatever the earlier redraws returned.
C11_AcquisitionFailureIsTransient ==
    /\ liveFrame = None
    /\ \A i \in 1..Len(redrawLog) :
        LET r == redrawLog[i]
        IN  /\ r.status = "Err" =>
                  /\ ~r.panic
                  /\ r.result = Some("Err")
                  /\ r.zbuffersAfter = r.zbuffersBefore
                  /\ r.after.encoders = r.before.encoders
                  /\ r.after.writes = r.before.writes
                  /\ r.after.passes = r.before.passes
                  /\ r.after.submits = r.before.submits
                  /\ r.after.presents = r.before.presents
            /\ r.before.attempts = i - 1
            /\ r.after.attempts = i

\* C11 witness: a redraw failed to acquire the surface image, the surface was
\* configured again by a Resized event, and the next redraw acquired a frame
\* and rendered it.
C11_Witness ==
    \E i \in 1..(Len(redrawLog) - 1) :
        /\ redrawLog[i].status = "Err"
        /\ redrawLog[i + 1].reconfigured
        /\ redrawLog[i + 1].result = Some("Ok")
        /\ redrawLog[i + 1].after.submits = redrawLog[i].after.submits + 1
        /\ redrawLog[i + 1].zbuffersAfter = redrawLog[i].zbuffersAfter + 1

\* C12: Device::configure on a device without a surface aborts and leaves the
\* remembered size as it was; a configure that succeeds sets the remembered
\* size to the size given; so Device::size() is the size of the last
\* successful configure, and the zero size before any.
C12_ConfigureRemembersSize ==
    /\ lastConfigure = None => deviceSize = Size(0, 0)
    /\ IsSome(lastConfigure) =>
          LET c == Unwrap(lastConfigure)
          IN  /\ ~hasSurface => ~c.ok
              /\ c.ok => deviceSize = c.size /\ surfaceConfig = Some(c.size)
              /\ ~c.ok => panicked /\ deviceSize = c.before
    /\ ~hasSurface => deviceSize = Size(0, 0)

\* C12 witness: a device with a surface was configured a second time, to a
\* different size.
C12_Witness ==
    /\ hasSurface
    /\ IsSome(lastConfigure)
    /\ Unwrap(lastConfigure).ok
    /\ Unwrap(lastConfigure).before # Size(0, 0)
    /\ Unwrap(lastConfigure).before # Unwrap(lastConfigure).size
    /\ deviceSize = Unwrap(lastConfigure).size

\* C13: the size field and the depth buffer of every live RenderFrame have
\* the size the surface is configured to.
C13_FrameMatchesConfiguredSize ==
    IsSome(liveFrame) =>
        /\ IsSome(surfaceConfig)
        /\ Unwrap(liveFrame).size = Unwrap(surfaceConfig)
        /\ Unwrap(liveFrame).depth.texture.size = Unwrap(surfaceConfig)
        /\ Unwrap(liveFrame).depth.texture.extent = Unwrap(surfaceConfig)

\* C13 witness: a frame is live that was acquired after the surface was
\* configured a second time, to a different, non-square size, and after an
\* earlier frame was dropped.
C13_Witness ==
    /\ IsSome(liveFrame)
    /\ zbuffers >= 2
    /\ IsSome(lastConfigure)
    /\ Unwrap(lastConfigure).ok
    /\ Unwrap(lastConfigure).before # Size(0, 0)
    /\ Unwrap(lastConfigure).before # Unwrap(lastConfigure).size
    /\ Unwrap(liveFrame).size = Unwrap(lastConfigure).size
    /\ Unwrap(liveFrame).size.width # Unwrap(liveFrame).size.height

\* C14: a call of Renderer::submit that returns has made exactly one queue
\* submission, of one command buffer that holds the commands of the batch's
\* operations in slice order; the command buffers of earlier calls stay ahead
\* of it in the queue, in the order of the calls.
C14_SubmitBatchesInOrder ==
    IsSome(lastSubmit) =>
        LET s == Unwrap(lastSubmit)
        IN  ~s.aborted =>
                /\ submissions = s.submissionsBefore + 1
                /\ Len(queue) = Len(s.queueBefore) + 1
                /\ SubSeq(queue, 1, Len(s.queueBefore)) = s.queueBefore
                /\ Len(queue[Len(queue)]) = Len(s.commands)
                /\ \A i \in 1..Len(s.commands) :
                       <<queue[Len(queue)][i]>> = OpEncode(tex, s.commands[i], debugBuild).cmds

\* C14 witness: a batch of two different operations was submitted, then a
\* batch of one operation.
C14_Witness ==
    /\ ~panicked
    /\ Len(queue) = 2
    /\ Len(queue[1]) = 2
    /\ queue[1][1].kind # queue[1][2].kind
    /\ Len(queue[2]) = 1
    /\ queue[2][1] # queue[1][2]
    /\ submissions = 2

\* C15: Renderer::update_pipeline makes no uniform-buffer write when prepare
\* returned None, and exactly one when it returned Some: of the payload
\* returned, at offset 0 of the buffer returned.
C15_UpdatePipelineWrites ==
    /\ \A i \in 1..Len(updateLog) :
        LET u == updateLog[i]
        IN  IF u.prepared = None
            THEN u.writes = <<>> /\ u.after = u.before
            ELSE /\ Len(u.writes) = 1
                 /\ u.writes[1].offset = 0
                 /\ u.writes[1].buffer = Unwrap(u.prepared).buffer
                 /\ u.writes[1].data = Unwrap(u.prepared).uniforms
                 /\ u.after[Unwrap(u.prepared).buffer] = Unwrap(u.prepared).uniforms
                 /\ \A b \in UniformBuffers \ {Unwrap(u.prepared).buffer} :
                        u.after[b] = u.before[b]
    /\ updateLog # <<>> =>
          /\ uniformWrites = updateLog[Len(updateLog)].writes
          /\ uniformBuffer = updateLog[Len(updateLog)].after

\* C15 witness: an update whose prepare returned a payload for the other
\* buffer, then an update whose prepare returned None.
C15_Witness ==
    /\ Len(updateLog) = 2
    /\ IsSome(updateLog[1].prepared)
    /\ Unwrap(updateLog[1].prepared).buffer = "other"
    /\ updateLog[1].after # updateLog[1].before
    /\ updateLog[2].prepared = None
    /\ uniformWrites = <<>>

\* C16: two update_pipeline calls in a row with the same context leave the
\* uniform buffer as the first one left it: LyonPipeline::prepare returns the
\* same payload for the same context, the second write replaces what the
\* first wrote, and the buffer does not grow.
C16_PrepareIdempotent ==
    \A i \in 1..(Len(updateLog) - 1) :
        LET a == updateLog[i]
            b == updateLog[i + 1]
        IN  /\ (a.pip = "lyon" /\ b.pip = "lyon" /\ a.ctx = b.ctx) =>
                  /\ b.prepared = a.prepared
                  /\ b.after = a.after
            /\ (a.pip = b.pip /\ a.prepared = b.prepared) => b.after = a.after
            /\ \A u \in UniformBuffers : Len(b.after[u]) = Len(a.before[u])

\* C16 witness: the Lyon pipeline was updated twice in a row with the same
\* context, which is not the one the buffer held before.
C16_Witness ==
    /\ Len(updateLog) = 2
    /\ updateLog[1].pip = "lyon" /\ updateLog[2].pip = "lyon"
    /\ updateLog[1].ctx = updateLog[2].ctx
    /\ updateLog[1].ctx # Identity
    /\ updateLog[1].after # updateLog[1].before
    /\ uniformBuffer = updateLog[1].after

\* C17: create_binding_group_layout(index, slots) returns a layout of size
\* slots.len() and set index `index`, and compiled slot j has the binding
\* index j, the stage and the type of slot j of the list.
C17_LayoutSlotsByPosition ==
    IsSome(layoutCall) =>
        LET c == Unwrap(layoutCall)
            l == Unwrap(lastLayout)
        IN  /\ IsSome(lastLayout)
            /\ l.layout.size = Len(c.slots)
            /\ l.layout.set_index = c.index
            /\ Len(l.wgpu) = Len(c.slots)
            /\ \A j \in 1..Len(c.slots) :
                   /\ l.wgpu[j].binding = j - 1
                   /\ l.wgpu[j].visibility = c.slots[j].stage
                   /\ l.wgpu[j].ty = BindingTypeInto(c.slots[j].binding)

\* C17 witness: a layout for set 1 was made from two slots of different type
\* and stage.
C17_Witness ==
    /\ IsSome(layoutCall)
    /\ Unwrap(layoutCall).index = 1
    /\ Len(Unwrap(layoutCall).slots) = 2
    /\ Unwrap(layoutCall).slots[1].binding # Unwrap(layoutCall).slots[2].binding
    /\ Unwrap(layoutCall).slots[1].stage # Unwrap(layoutCall).slots[2].stage
    /\ IsSome(lastLayout)
    /\ Unwrap(lastLayout).layout.size = 2

\* The byte sizes of the first k formats of a list, added up.
RECURSIVE SumBytes(_, _)
SumBytes(formats, k) ==
    IF k = 0 THEN 0 ELSE SumBytes(formats, k - 1) + Bytesize(formats[k])

\* C18: VertexLayout::from gives attribute k the shader location k and the
\* offset that is the sum of the byte sizes of the attributes before it, and
\* the stride that is the sum of all byte sizes; offsets increase strictly
\* and no attribute overlaps the next or the end of the vertex; for
\* (Floatx3, UBytex4) the stride is 16 and the offsets are 0 and 12.
C18_VertexLayoutOffsets ==
    IsSome(vertexLayout) =>
        LET attributes == Unwrap(vertexLayout).attributes
            stride == VertexBufferLayout(Unwrap(vertexLayout)).array_stride
            n == Len(vertexFormats)
        IN  /\ Len(attributes) = n
            /\ stride = SumBytes(vertexFormats, n)
            /\ \A k \in 1..n :
                   /\ attributes[k].shader_location = k - 1
                   /\ attributes[k].offset = SumBytes(vertexFormats, k - 1)
                   /\ attributes[k].format = VertexFormatInto(vertexFormats[k])
                   /\ attributes[k].offset + Bytesize(vertexFormats[k]) <= stride
            /\ \A k \in 1..(n - 1) :
                   /\ attributes[k].offset < attributes[k + 1].offset
                   /\ attributes[k].offset + Bytesize(vertexFormats[k]) <= attributes[k + 1].offset
            /\ vertexFormats = <<"Floatx3", "UBytex4">> =>
                   /\ stride = 16
                   /\ attributes[1].offset = 0
                   /\ attributes[2].offset = 12

\* C18 witness: the layout of the Lyon pipeline's description was built.
C18_Witness ==
    /\ vertexFormats = LyonVertexLayout
    /\ IsSome(vertexLayout)
    /\ Len(Unwrap(vertexLayout).attributes) = 2

\* C19: the depth buffer of every Framebuffer create_framebuffer returns has
\* the extent and the sample count of its colour texture, and every depth
\* buffer created (by create_zbuffer, create_framebuffer or current_frame) has
\* the depth format of create_pipeline's depth-stencil state.
C19_DepthMatchesColour ==
    /\ (IsSome(made) /\ Unwrap(made).kind = "framebuffer") =>
          LET framebuffer == Unwrap(made).value
          IN  /\ framebuffer.depth.texture.extent = framebuffer.texture.extent
              /\ framebuffer.depth.texture.size = framebuffer.texture.size
              /\ framebuffer.depth.texture.sample_count = framebuffer.texture.sample_count
    /\ (IsSome(made) /\ Unwrap(made).kind = "zbuffer") =>
          Unwrap(made).value.texture.format \in depthFormats
    /\ IsSome(liveFrame) => Unwrap(liveFrame).depth.texture.format \in depthFormats
    /\ \A format \in depthFormats, target \in TextureFormats, count \in SampleCounts :
          format = CreatePipeline(target, count).depth_stencil.format

\* C19 witness: a multisampled, non-square framebuffer was created while a
\* frame acquired from the surface is live.
C19_Witness ==
    /\ IsSome(made) /\ Unwrap(made).kind = "framebuffer"
    /\ Unwrap(made).value.texture.sample_count > 1
    /\ Unwrap(made).value.texture.size.width # Unwrap(made).value.texture.size.height
    /\ IsSome(liveFrame)
    /\ depthFormats # {}

\* C20: a Texture::fill call that passes the length precondition records one
\* copy at origin (0,0) over the texture's full extent, with a row pitch of
\* 4 * texture.width bytes.
C20_FillRowPitch ==
    (called /\ arg.kind = "fill" /\ arg.texels.len >= Area(tex) /\ submissions = 0) =>
        /\ ~panicked
        /\ Len(encoder) = 1
        /\ encoder[1].origin = Point(0, 0)
        /\ encoder[1].extent = tex
        /\ encoder[1].bytes_per_row = 4 * tex.width

\* C21: while the driver owes the mapping callback, read stays in its loop
\* (so it never returns if the callback never runs: there is no timeout);
\* once the callback has stored its result, read eventually takes it and
\* returns; and a read that returned took the result of one callback, once:
\* its value is what read returns and the shared slot is empty again.
C21_ReadWaitsForCallback ==
    /\ [](mapPending => (readPc = "polling" /\ readResult = None))
    /\ [](readPc = "returned" =>
            /\ Count(readLog, "mapped_ok") + Count(readLog, "mapped_err") = 1
            /\ mapResult = None
            /\ readResult = Some(IF Count(readLog, "mapped_ok") = 1 THEN "Ok" ELSE "Err"))
    /\ ((readPc = "polling" /\ IsSome(mapResult)) ~> (readPc = "returned"))

\* C21 witness: a read returned the failure its mapping callback reported, and
\* the next read is in its loop while the driver still owes the callback.
C21_Witness ==
    /\ reads = 2
    /\ readPc = "polling"
    /\ mapPending
    /\ mapResult = None
    /\ readLog = <<"copy", "map_async">>

\* C22, as stated: recording never begins, and commands are never submitted,
\* unless a RenderFrame was acquired before.
C22_RecordingNeedsAcquisition ==
    (openFrames > 0 \/ frameSubmissions > 0) =>
        \E id \in FrameIds : frames[id].state # "none"

\* C22, amended: a RenderFrame goes from unacquired to acquired to presented
\* (on drop) and never back; every submission of Renderer::present consumes
\* one Frame that Renderer::frame began, so a recorded Frame is submitted at
\* most once; but Renderer::frame and Renderer::present ask for no acquired
\* RenderFrame.
C22_FrameLifecycle ==
    [][/\ \A id \in FrameIds :
            \/ frames'[id].state = frames[id].state
            \/ frames[id].state = "none" /\ frames'[id].state = "live"
            \/ frames[id].state = "live" /\ frames'[id].state = "dropped"
       /\ \A id \in FrameIds :
            frames'[id].presents # frames[id].presents =>
                /\ frames[id].state = "live" /\ frames'[id].state = "dropped"
                /\ frames'[id].presents = frames[id].presents + 1
       /\ frameSubmissions' # frameSubmissions =>
            /\ frameSubmissions' = frameSubmissions + 1
            /\ openFrames > 0
            /\ openFrames' = openFrames - 1
       /\ openFrames' > openFrames => frameSubmissions' = frameSubmissions
      ]_vars

\* C22 witness: a Frame was recorded and submitted, and another is being
\* recorded, while no RenderFrame was ever acquired.
C22_Witness ==
    /\ ~panicked
    /\ frameSubmissions = 1
    /\ openFrames = 1
    /\ \A id \in FrameIds : frames[id].state = "none"

C24_TransferInsideTexture ==
    (/\ called /\ arg.kind = "transfer" /\ ~panicked
     /\ submissions = 0 /\ encoder # <<>>) =>
        LET copy == encoder[Len(encoder)]
        IN  /\ copy.origin.x + copy.extent.width <= tex.width
            /\ copy.origin.y + copy.extent.height <= tex.height

\* C25: the area check is the only abort of Texture::transfer: every call
\* whose destination area is at most the texture's area returns and has
\* recorded one copy, also for a rectangle without height or width and for
\* one whose top lies below the texture's height.
C25_AreaCheckIsOnlyAbort ==
    (called /\ arg.kind = "transfer" /\ TransferAreaOk(tex, arg.rect)) =>
        /\ ~panicked
        /\ submissions = 0 =>
              /\ Len(encoder) = (IF IsSome(cleared) THEN 2 ELSE 1)
              /\ encoder[Len(encoder)].buffer = arg.texels

\* C26: Renderer::submit aborts exactly when one of the batch's operations
\* aborts, and a call that aborted has submitted nothing: the queue holds what
\* it held before the call, also when operations before the failing one were
\* encoded, and nothing is submitted afterwards.
C26_SubmitAllOrNothing ==
    IsSome(lastSubmit) =>
        LET s == Unwrap(lastSubmit)
            aborts == {i \in 1..Len(s.commands) : OpEncode(tex, s.commands[i], debugBuild).panic}
        IN  /\ s.aborted <=> aborts # {}
            /\ s.aborted =>
                  /\ panicked
                  /\ queue = s.queueBefore
                  /\ submissions = s.submissionsBefore

\* C26 witness: after a batch was submitted, a batch aborted in its last
\* operation, a blit of equal areas, behind an operation that had recorded
\* its command.
C26_Witness ==
    /\ IsSome(lastSubmit)
    /\ Unwrap(lastSubmit).aborted
    /\ Len(Unwrap(lastSubmit).queueBefore) = 1
    /\ Len(queue) = 1
    /\ Len(Unwrap(lastSubmit).commands) >= 2
    /\ \A i \in 1..(Len(Unwrap(lastSubmit).commands) - 1) :
          LET out == OpEncode(tex, Unwrap(lastSubmit).commands[i], debugBuild)
          IN  ~out.panic /\ out.cmds # <<>>
    /\ Unwrap(lastSubmit).commands[Len(Unwrap(lastSubmit).commands)].op = "Blit"

\* C27: draw_buffer on a vertex buffer created from n vertices issues a draw
\* of the vertices 0..n, one instance.
C27_DrawBufferDrawsAllVertices ==
    \A i \in 1..Len(draws) :
        draws[i].kind = "draw" =>
            /\ draws[i].vertices = [start |-> 0, end |-> vertexCount]
            /\ draws[i].instances = [start |-> 0, end |-> 1]

\* C28: in the sandbox's event loop, whenever a redraw can run the multisample
\* texture has the renderer's configured size, which is also the size the
\* surface is configured with; so in every pass of a redraw the colour target,
\* the multisample texture given as resolve target and the depth buffer have
\* the same dimensions.
C28_MultisampleMatchesConfiguredSize ==
    /\ ~panicked =>
          /\ IsSome(multisample)
          /\ Unwrap(multisample).size = deviceSize
          /\ surfaceConfig = Some(deviceSize)
    /\ \A i \in 1..Len(redrawLog) :
          IsSome(redrawLog[i].pass) =>
              LET pass == Unwrap(redrawLog[i].pass)
              IN  pass.color = pass.resolve /\ pass.resolve = pass.depth

\* C28 witness: two redraws opened a pass, the second one after a Resized
\* event that changed the size; its attachments have the new size.
C28_Witness ==
    /\ Len(redrawLog) >= 2
    /\ IsSome(redrawLog[1].pass)
    /\ LET last == redrawLog[Len(redrawLog)]
       IN  /\ last.reconfigured
           /\ IsSome(last.pass)
           /\ Unwrap(last.pass).resolve # Unwrap(redrawLog[1].pass).resolve
           /\ Unwrap(last.pass).resolve = Unwrap(lastConfigure).size

=============================================================================
